---- MODULE Spec2Model ----
(***************************************************************************)
(* Model of the OAuth relay of review-dash (src/main.go): the one-time     *)
(* auth code store, the exchange endpoint behind the cross-origin guard    *)
(* and the rate limiter, the OAuth callback, the failed-attempt tracker    *)
(* and the return-URL validator.                                           *)
(*                                                                         *)
(* Time is counted in seconds.  A Go string is a sequence of one-character *)
(* strings; a URL is given by what url.Parse yields for it.                *)
(***************************************************************************)
EXTENDS Integers, Sequences, FiniteSets, TLC

\* ------------------------------------------------------------------ bounds
MaxReqs == 2
MaxCodes == 1
MaxBurst == 11
MaxAdmitted == 2
MaxFailed == 6
MaxIPs == 101

\* ------------------------------------------------------- program constants
rateLimitRequests == 10
rateLimitWindow == 60
failedLoginWindow == 900
maxFailedLogins == 5
authCodeTTL == 10
sweepInterval == 60
cleanupModulus == 100
minResponseTime == 50
maxCookieSize == 3800
maxHandleLen == 39
maxCodeLen == 512
retryAttempts == 10

\* ---------------------------------------------------------------- strings
baseDomain == <<"r","e","v","i","e","w","G","O","O","S","E",".","d","e","v">>

UpperChars == <<"A","B","C","D","E","F","G","H","I","J","K","L","M",
                "N","O","P","Q","R","S","T","U","V","W","X","Y","Z">>
LowerChars == <<"a","b","c","d","e","f","g","h","i","j","k","l","m",
                "n","o","p","q","r","s","t","u","v","w","x","y","z">>
DigitChars == <<"0","1","2","3","4","5","6","7","8","9">>

Range(s) == {s[i] : i \in 1..Len(s)}

\* strings.HasPrefix / strings.HasSuffix
HasPrefix(s, p) == Len(s) >= Len(p) /\ SubSeq(s, 1, Len(p)) = p
HasSuffix(s, p) == Len(s) >= Len(p) /\ SubSeq(s, Len(s) - Len(p) + 1, Len(s)) = p

\* unicode simple case folding, restricted to the ASCII letters
FoldChar(c) ==
    IF \E i \in 1..26 : UpperChars[i] = c
    THEN LowerChars[CHOOSE i \in 1..26 : UpperChars[i] = c]
    ELSE c

\* strings.EqualFold
EqualFold(s, t) ==
    /\ Len(s) = Len(t)
    /\ \A i \in 1..Len(s) : FoldChar(s[i]) = FoldChar(t[i])

\* strings.Split(s, "."): the first part and the number of parts
FirstDot(s) ==
    IF \E i \in 1..Len(s) : s[i] = "."
    THEN CHOOSE i \in 1..Len(s) : s[i] = "." /\ \A j \in 1..(i-1) : s[j] # "."
    ELSE 0
SplitFirst(s) == IF FirstDot(s) = 0 THEN s ELSE SubSeq(s, 1, FirstDot(s) - 1)
SplitCount(s) == Cardinality({i \in 1..Len(s) : s[i] = "."}) + 1

\* strings.Split(s, "."): all the parts
RECURSIVE SplitDots(_)
SplitDots(s) ==
    IF FirstDot(s) = 0 THEN <<s>>
    ELSE <<SplitFirst(s)>> \o SplitDots(SubSeq(s, FirstDot(s) + 1, Len(s)))

\* ------------------------------------------------------ isValidGitHubHandle
isHandleChar(c) ==
    \/ c \in Range(LowerChars)
    \/ c \in Range(UpperChars)
    \/ c \in Range(DigitChars)
    \/ c = "-"

\* isValidGitHubHandle without the check for two hyphens in a row.
isValidGitHubHandleNoDouble(handle) ==
    /\ handle # <<>>
    /\ Len(handle) <= maxHandleLen
    /\ ~HasPrefix(handle, <<"-">>)
    /\ ~HasSuffix(handle, <<"-">>)
    /\ \A i \in 1..Len(handle) : isHandleChar(handle[i])

isValidGitHubHandle(handle) ==
    /\ handle # <<>>
    /\ Len(handle) <= maxHandleLen
    /\ ~HasPrefix(handle, <<"-">>)
    /\ ~HasSuffix(handle, <<"-">>)
    /\ \A i \in 1..Len(handle) :
          /\ isHandleChar(handle[i])
          /\ (handle[i] = "-" /\ i > 1) => handle[i-1] # "-"

\* ------------------------------------------------------ validateReturnToURL
\* A URL string, given by the result of url.Parse: whether it parses, its
\* scheme and its Hostname().  The empty string parses to the empty URL.
EmptyURL == [parses |-> TRUE, scheme |-> "", host |-> <<>>]

reservedSubdomains ==
    << <<"w","w","w">>, <<"d","a","s","h">>, <<"a","p","i">>,
       <<"l","o","g","i","n">>,
       <<"a","u","t","h","-","c","a","l","l","b","a","c","k">>,
       <<"m","y">> >>

isReserved(subdomain) ==
    \E i \in 1..Len(reservedSubdomains) : EqualFold(subdomain, reservedSubdomains[i])

\* hostIsOurs that matches the suffix without its leading dot.
hostIsOursNoDot(host) == host = baseDomain \/ HasSuffix(host, baseDomain)

hostIsOurs(host) == host = baseDomain \/ HasSuffix(host, <<".">> \o baseDomain)

subdomainOK(host) ==
    \/ host = baseDomain
    \/ SplitCount(host) < 3
    \/ isReserved(SplitFirst(host))
    \/ isValidGitHubHandle(SplitFirst(host))

\* validateReturnToURL that hands back the accepted URL with the https
\* scheme.
validateReturnToURLUpgrade(returnTo) ==
    IF returnTo = EmptyURL THEN EmptyURL
    ELSE IF ~returnTo.parses THEN EmptyURL
    ELSE IF returnTo.scheme \notin {"http", "https"} THEN EmptyURL
    ELSE IF ~hostIsOurs(returnTo.host) THEN EmptyURL
    ELSE IF ~subdomainOK(returnTo.host) THEN EmptyURL
    ELSE [returnTo EXCEPT !.scheme = "https"]

validateReturnToURL(returnTo) ==
    IF returnTo = EmptyURL THEN EmptyURL
    ELSE IF ~returnTo.parses THEN EmptyURL
    ELSE IF returnTo.scheme \notin {"http", "https"} THEN EmptyURL
    ELSE IF ~hostIsOurs(returnTo.host) THEN EmptyURL
    ELSE IF ~subdomainOK(returnTo.host) THEN EmptyURL
    ELSE returnTo

\* ------------------------------------------------------------------- state
VARIABLES
    now,             \* time.Now(), in seconds since the server started
    clientID,        \* whether *clientID is set
    clientSecret,    \* whether *clientSecret is set
    authCodes,       \* map: auth code -> authCodeData
    authCodesMutex,  \* 0 when free, else the holder
    requests,        \* exchangeRateLimiter.requests: ip -> timestamps
    mu,              \* exchangeRateLimiter.mu: 0 when free, else the holder
    failedAttempts,  \* map: ip -> timestamps of failed attempts
    nextID,          \* number of IDs generateID has produced
    lastSweep,       \* time of the last tick the cleanup goroutine served
    ex,              \* the exchange requests in flight, per connection
    lastResp,        \* the response the last step wrote (NoResp if none), with its request
    tokensOut,       \* per auth code, how many 200 responses carried its token
    issuedAt,        \* per auth code, when it was stored (-1: not issued)
    allowedLog,      \* per ip, when within the last window the limiter let a request pass
    vURL,            \* validator run: the input
    vResult,         \* validator run: the result, once computed
    vHandle,         \* handle check: the input
    vHandleOK,       \* handle check: the result, once computed
    jar,             \* the browser's oauth_state and oauth_return_to cookies
    cb,              \* the callback whose provider calls are under way
    redir,           \* redirect of a successful callback: cookie, destination, code, Location
    crashed,         \* the process has terminated
    ws,              \* workspace.js: the page's host and the browser's cookies
    watch            \* kept by an observer: an earlier callback, the requests served

vars == <<now, clientID, clientSecret, authCodes, authCodesMutex, requests,
          mu, failedAttempts, nextID, lastSweep, ex, lastResp, tokensOut,
          issuedAt, allowedLog, vURL, vResult, vHandle, vHandleOK, jar, cb,
          redir, crashed, ws, watch>>

\* The variables that only the login, handle-check and provider-call steps
\* change.
auxVars == <<redir, crashed, ws, watch>>
flowVars == <<clientID, vHandle, vHandleOK, jar, cb, auxVars>>

IPs == {"10.0.0.1", "10.0.0.2"}
Reqs == 1..MaxReqs
Codes == 1..MaxCodes

\* Go map operations
MapGet(m, k, dflt) == IF k \in DOMAIN m THEN m[k] ELSE dflt
MapPut(m, k, v) == [x \in DOMAIN m \cup {k} |-> IF x = k THEN v ELSE m[x]]
MapDelete(m, k) == [x \in DOMAIN m \ {k} |-> m[x]]
EmptyMap == [x \in {} |-> 0]

\* ------------------------------------------------------------------ values
\* A bearer token as the provider returns it: its prefix, its length and
\* an identity.  The empty token stands for "no token".
NoToken == [prefix |-> "", len |-> 0, id |-> 0]
TokenA == [prefix |-> "ghp_", len |-> 40, id |-> 1]
TokenB == [prefix |-> "gho_", len |-> 255, id |-> 2]
TokenShort == [prefix |-> "ghp_", len |-> 39, id |-> 3]
TokenAlien == [prefix |-> "xox_", len |-> 40, id |-> 4]

Alice == <<"a","l","i","c","e">>
Bob == <<"b","o","b">>
BadLogin == <<"-","b","o","b">>

MyHost == <<"m","y",".">> \o baseDomain
OrgHost == <<"k","8","s",".">> \o baseDomain
EvilHost == <<"e","v","i","l",".","d","e","v">>
LocalHost == <<"l","o","c","a","l","h","o","s","t">>
WildHost == <<"*",".">> \o baseDomain

URL(scheme, host) == [parses |-> TRUE, scheme |-> scheme, host |-> host]

\* The response record: the request's inputs and what the handler did.
NoResp ==
    [endpoint |-> "none", ip |-> "", status |-> 0, msg |-> "",
     token |-> NoToken, username |-> <<>>, code |-> 0,
     stage |-> "", method |-> "", body |-> "",
     secFetchSite |-> "", origin |-> URL("", <<>>), host |-> <<>>,
     errParam |-> FALSE, install |-> FALSE, state |-> "", cookie |-> "",
     codeLen |-> 0, returnCookie |-> EmptyURL, configured |-> TRUE,
     provToken |-> NoToken, provLogin |-> <<>>,
     tracked |-> FALSE, clearedState |-> FALSE, clearedReturnTo |-> FALSE,
     tokenCalls |-> 0, userCalls |-> 0, issued |-> 0, cancelled |-> FALSE,
     aborted |-> FALSE, elapsed |-> 0, logged |-> FALSE,
     location |-> EmptyURL, fragment |-> 0,
     scheme |-> "", locScheme |-> "", locPath |-> "", locHost |-> <<>>,
     locQuery |-> <<>>,
     mintedState |-> "", setStateCookie |-> "", setReturnCookie |-> <<>>]

\* The browser without cookies (used: the states that have passed the
\* state validation of a callback since they were minted), and no callback
\* under way.
EmptyJar == [state |-> "none", returnTo |-> <<>>, used |-> {}]
IdleCb ==
    [pc |-> "idle", ctxDone |-> FALSE, n |-> 0, tokenCalls |-> 0,
     userCalls |-> 0, last |-> ""]

\* No redirect built, the process running, no page loaded.
NoRedir ==
    [cookie |-> <<>>, returnTo |-> <<>>, code |-> <<>>, location |-> <<>>]
\* workspace.js: getCookie's null, a cookie that the browser does not
\* hold, and the page before any call of the module.
NullCookie == <<"null">>
AbsentCookie == [value |-> NullCookie, domain |-> <<>>]
NoCall == [op |-> "none", org |-> <<>>, ret |-> <<>>]
NoPage ==
    [host |-> <<>>, username |-> AbsentCookie, hidden |-> EmptyMap,
     last |-> NoCall]
NoWatch ==
    [seen |-> FALSE, authCodes |-> <<>>, nextID |-> 0, now |-> 0,
     hist |-> <<>>, resp |-> NoResp, after |-> <<>>,
     served |-> [e \in {"login", "callback", "user"} |-> <<>>]]
AuxInit ==
    /\ redir = NoRedir
    /\ crashed = FALSE
    /\ ws = NoPage
    /\ watch = NoWatch

\* clientIP: RemoteAddr without its port; a request is given by that part.
clientIP(q) == q.ip

\* ------------------------------------------------------ cross-origin guard
\* The origins main() hands to csrfProtection.AddTrustedOrigin.  The guard
\* (net/http CrossOriginProtection) keeps each as the literal string given
\* and admits an Origin header equal to one of them.
NoOrigin == URL("", <<>>)
trustedOrigins ==
    { URL("https", baseDomain),
      URL("https", WildHost),
      URL("http", LocalHost) }

isRequestExempt(q) == q.origin # NoOrigin /\ q.origin \in trustedOrigins

\* The route registered without the guard: every request passes.
crossOriginCheckOff(q) == TRUE

\* csrfProtection.Handler: CrossOriginProtection.Check on the request.
crossOriginCheck(q) ==
    IF q.method \in {"GET", "HEAD", "OPTIONS"} THEN TRUE
    ELSE IF q.secFetchSite \in {"same-origin", "none"} THEN TRUE
    ELSE IF q.secFetchSite # "" THEN isRequestExempt(q)
    ELSE IF q.origin = NoOrigin THEN TRUE
    ELSE IF q.origin.host = q.host THEN TRUE
    ELSE isRequestExempt(q)

\* ------------------------------------------------------------ rate limiter
\* The timestamps of s after cutoff, in order (the loop of limitHandler and
\* of trackFailedAttempt).
After(s, cutoff) == SelectSeq(s, LAMBDA t : t > cutoff)

\* validRequests shares the array of rl.requests[ip]: the loop writes the
\* kept timestamps over its front, the slice in the map keeps its length.
CompactInPlace(s, cutoff) ==
    After(s, cutoff) \o SubSeq(s, Len(After(s, cutoff)) + 1, Len(s))

\* A cleanup that never runs.
CleanupNever(m, cutoff) == m

\* A scan that judges an entry by its oldest timestamp.
IsStaleOldest(times, cutoff) == Len(times) = 0 \/ times[1] < cutoff

\* The periodic cleanup of a timestamp map, run when its size is a multiple
\* of cleanupModulus: drop the ips that are empty or whose last timestamp
\* is before cutoff.
IsStale(times, cutoff) == Len(times) = 0 \/ times[Len(times)] < cutoff
Cleanup(m, cutoff) ==
    IF Cardinality(DOMAIN m) % cleanupModulus = 0
    THEN [x \in {y \in DOMAIN m : ~IsStale(m[y], cutoff)} |-> m[x]]
    ELSE m

\* What limitHandler decides for ip, and the map it leaves.
\* limitAllows that lets the request through at the limit itself.
limitAllowsAtLimit(ip) ==
    Len(After(MapGet(requests, ip, <<>>), now - rateLimitWindow)) <= rateLimitRequests

limitAllows(ip) ==
    Len(After(MapGet(requests, ip, <<>>), now - rateLimitWindow)) < rateLimitRequests

\* A limiter that records the rejected requests as well.
limitRequestsAfterRecordAll(ip) ==
    LET cutoff == now - rateLimitWindow
        old == MapGet(requests, ip, <<>>)
    IN  Cleanup(MapPut(requests, ip, Append(After(old, cutoff), now)), cutoff)

limitRequestsAfter(ip) ==
    LET cutoff == now - rateLimitWindow
        old == MapGet(requests, ip, <<>>)
    IN  IF limitAllows(ip)
        THEN Cleanup(MapPut(requests, ip, Append(After(old, cutoff), now)), cutoff)
        ELSE IF ip \in DOMAIN requests
             THEN [requests EXCEPT ![ip] = CompactInPlace(old, cutoff)]
             ELSE requests

\* ------------------------------------------------------ trackFailedAttempt
\* trackFailedAttempt that forgets the earlier attempts of the ip.
trackFailedAttemptReplace(fa, ip) ==
    Cleanup(MapPut(fa, ip, <<now>>), now - failedLoginWindow)

trackFailedAttempt(fa, ip) ==
    LET cutoff == now - failedLoginWindow
        valid == After(MapGet(fa, ip, <<>>), cutoff)
    IN  Cleanup(MapPut(fa, ip, Append(valid, now)), cutoff)

\* The security log line of trackFailedAttempt is written for this ip.
excessiveFailures(fa, ip) == Len(trackFailedAttempt(fa, ip)[ip]) > maxFailedLogins

\* ------------------------------------------------------- exchange endpoint
NoData == [expiry |-> 0, token |-> NoToken, username |-> <<>>,
           returnTo |-> EmptyURL, used |-> FALSE]

\* An exchange request: the peer address, the method, the body (malformed
\* JSON, JSON without auth_code, or JSON with auth_code = code) and the
\* headers the cross-origin guard reads.
ExReq(ip, method, body, code, site, origin, host) ==
    [ip |-> ip, method |-> method, body |-> body, code |-> code,
     secFetchSite |-> site, origin |-> origin, host |-> host]

IdleReq ==
    [pc |-> "idle", ip |-> "", method |-> "", body |-> "", code |-> 0,
     secFetchSite |-> "", origin |-> NoOrigin, host |-> <<>>,
     exists |-> FALSE, data |-> NoData]

\* The response to the exchange request e, written at the given stage.
ExResp(e, stage, status, msg, token, username) ==
    [NoResp EXCEPT !.endpoint = "exchange", !.ip = e.ip, !.status = status,
                   !.msg = msg, !.token = token, !.username = username,
                   !.code = IF e.body = "code" THEN e.code ELSE 0,
                   !.stage = stage,
                   !.method = e.method, !.body = e.body,
                   !.secFetchSite = e.secFetchSite, !.origin = e.origin,
                   !.host = e.host]

\* The time in milliseconds that the work of a request takes, below and
\* above the floor, and a response that completes ms after the request came.
WorkMs == {0, 2 * minResponseTime}
Timed(resp, ms) == [resp EXCEPT !.elapsed = ms]

\* A handler without the deferred sleep.
padResponseTimeOff(elapsed) == elapsed

\* The deferred function of handleExchangeAuthCode: the time from startTime
\* to the return of the handler, given the time its body took.
padResponseTime(elapsed) ==
    IF elapsed < minResponseTime
    THEN elapsed + (minResponseTime - elapsed)
    ELSE elapsed

\* A request reaches csrfProtection.Handler, which rejects it or passes it
\* on to the rate limiter.
ExArrive(r, q) ==
    /\ ex[r].pc = "idle"
    /\ \A r2 \in 1..(r - 1) : ex[r2].pc # "idle"
    /\ LET e == [IdleReq EXCEPT !.ip = q.ip, !.method = q.method,
                     !.body = q.body, !.code = q.code,
                     !.secFetchSite = q.secFetchSite, !.origin = q.origin,
                     !.host = q.host]
       IN  IF crossOriginCheck(q)
           THEN /\ ex' = [ex EXCEPT ![r] = [e EXCEPT !.pc = "limit"]]
                /\ lastResp' = NoResp
           ELSE /\ \E w \in WorkMs :
                     lastResp' = Timed(ExResp(e, "guard", 403,
                                              "cross-origin request detected",
                                              NoToken, <<>>), w)
                /\ UNCHANGED ex
    /\ UNCHANGED <<now, clientSecret, authCodes, authCodesMutex, requests, mu,
                   failedAttempts, nextID, lastSweep, tokensOut, issuedAt,
                   allowedLog, vURL, vResult, flowVars>>

\* rl.mu.Lock() and authCodesMutex.Lock() proceed when no one holds the mutex.
rlLockFree == mu = 0
authCodesLockFree == authCodesMutex = 0

\* A handler that does not look at the method.
exchangeEarlyStatusAnyMethod(e) ==
    IF e.body = "malformed" THEN 400
    ELSE IF e.body = "missing" THEN 400
    ELSE 0

\* handleExchangeAuthCode up to authCodesMutex.Lock(): the method check and
\* the decoding of the body (0: the request goes on to the code store).
exchangeEarlyStatus(e) ==
    IF e.method # "POST" THEN 405
    ELSE IF e.body = "malformed" THEN 400
    ELSE IF e.body = "missing" THEN 400
    ELSE 0

exchangeEarlyMsg(e) ==
    IF e.method # "POST" THEN "Method not allowed"
    ELSE IF e.body = "malformed" THEN "Invalid request"
    ELSE "Missing auth_code"

\* limitHandler: takes rl.mu, prunes, and rejects with 429 or records now
\* and calls handleExchangeAuthCode, which answers a bad method or body at
\* once and else goes on to authCodesMutex.Lock().  rl.mu is released when
\* limitHandler returns, that is after the handler has returned.
ExLimit(r) ==
    /\ ex[r].pc = "limit"
    /\ rlLockFree
    /\ requests' = limitRequestsAfter(clientIP(ex[r]))
    /\ IF ~limitAllows(clientIP(ex[r]))
       THEN /\ mu' = 0
            /\ ex' = [ex EXCEPT ![r] = IdleReq]
            /\ \E w \in WorkMs :
                 lastResp' = Timed(ExResp(ex[r], "limiter", 429,
                                          "Rate limit exceeded", NoToken, <<>>), w)
            /\ UNCHANGED allowedLog
       ELSE /\ allowedLog' = [allowedLog EXCEPT
                                ![clientIP(ex[r])] = Append(@, now)]
            /\ IF exchangeEarlyStatus(ex[r]) # 0
               THEN /\ mu' = 0
                    /\ ex' = [ex EXCEPT ![r] = IdleReq]
                    /\ \E w \in WorkMs :
                         lastResp' = Timed(ExResp(ex[r], "handler",
                                                  exchangeEarlyStatus(ex[r]),
                                                  exchangeEarlyMsg(ex[r]),
                                                  NoToken, <<>>),
                                           padResponseTime(w))
               ELSE /\ mu' = r
                    /\ ex' = [ex EXCEPT ![r].pc = "lock"]
                    /\ lastResp' = NoResp
    /\ UNCHANGED <<now, clientSecret, authCodes, authCodesMutex,
                   failedAttempts, nextID, lastSweep, tokensOut, issuedAt,
                   vURL, vResult, flowVars>>

\* authCodesMutex.Lock() and the lookup  data, exists := authCodes[code].
ExLock(r) ==
    /\ ex[r].pc = "lock"
    /\ authCodesLockFree
    /\ authCodesMutex' = r
    /\ ex' = [ex EXCEPT ![r].pc = "locked",
                        ![r].exists = ex[r].code \in DOMAIN authCodes,
                        ![r].data = MapGet(authCodes, ex[r].code, NoData)]
    /\ lastResp' = NoResp
    /\ UNCHANGED <<now, clientSecret, authCodes, requests, mu, failedAttempts,
                   nextID, lastSweep, tokensOut, issuedAt,
                   allowedLog, vURL, vResult, flowVars>>

\* Mutant: the expiry of the entry is not checked.
consumeStatusNoExpiry(e) ==
    IF ~e.exists THEN 401
    ELSE IF e.data.used THEN 401
    ELSE 200

\* The checks under the lock, and what they answer.
consumeStatus(e) ==
    IF ~e.exists THEN 401
    ELSE IF e.data.used THEN 401
    ELSE IF now > e.data.expiry THEN 401
    ELSE 200

consumeMsg(e) ==
    IF ~e.exists THEN "Invalid or expired auth code"
    ELSE IF e.data.used THEN "Auth code already used"
    ELSE IF now > e.data.expiry THEN "Auth code expired"
    ELSE "token"

\* Mutant: the response leaves the username out.
consumeBodyNoUser(e) == [token |-> e.data.token, username |-> <<>>]

\* The body of the 200 response: the token and the username of the entry.
consumeBody(e) == [token |-> e.data.token, username |-> e.data.username]

\* Mutant: the entry stays in the store after a successful exchange.
consumeStoreKeep(e) == authCodes

\* Mutant: the entry is deleted whatever the checks say.
consumeStoreAlways(e) == MapDelete(authCodes, e.code)

\* The store after the checks: the entry is deleted when they all pass.
consumeStore(e) ==
    IF consumeStatus(e) = 200 THEN MapDelete(authCodes, e.code) ELSE authCodes

\* The rest of handleExchangeAuthCode: the checks, the deletion, the unlock,
\* the response, and the return through limitHandler, which releases rl.mu.
ExConsume(r) ==
    /\ ex[r].pc = "locked"
    /\ authCodes' = consumeStore(ex[r])
    /\ authCodesMutex' = 0
    /\ mu' = 0
    /\ \E w \in WorkMs :
         lastResp' =
           Timed(IF consumeStatus(ex[r]) = 200
                 THEN ExResp(ex[r], "consume", 200, consumeMsg(ex[r]),
                             consumeBody(ex[r]).token, consumeBody(ex[r]).username)
                 ELSE ExResp(ex[r], "consume", consumeStatus(ex[r]),
                             consumeMsg(ex[r]), NoToken, <<>>),
                 padResponseTime(w))
    /\ tokensOut' =
         IF consumeStatus(ex[r]) = 200
         THEN [tokensOut EXCEPT ![ex[r].code] = @ + 1]
         ELSE tokensOut
    /\ ex' = [ex EXCEPT ![r] = IdleReq]
    /\ UNCHANGED <<now, clientSecret, requests, failedAttempts, nextID,
                   lastSweep, issuedAt, allowedLog, vURL, vResult, flowVars>>

\* ------------------------------------------------------- cleanup goroutine
\* The ticker fires every sweepInterval; the goroutine serves the latest
\* tick that is due and deletes every entry whose expiry has passed.
\* A sweep that spares the entries no exchange has consumed.
sweepKeepsUnused(data) == ~(now > data.expiry) \/ ~data.used

sweepKeeps(data) == ~(now > data.expiry)

Sweep ==
    /\ now >= lastSweep + sweepInterval
    /\ authCodesLockFree
    /\ authCodes' = [c \in {d \in DOMAIN authCodes : sweepKeeps(authCodes[d])}
                       |-> authCodes[c]]
    /\ lastSweep' = lastSweep + sweepInterval * ((now - lastSweep) \div sweepInterval)
    /\ lastResp' = NoResp
    /\ UNCHANGED <<now, clientSecret, authCodesMutex, requests, mu,
                   failedAttempts, nextID, ex, tokensOut, issuedAt,
                   allowedLog, vURL, vResult, flowVars>>

\* -------------------------------------------------------------------- time
\* Time passes; handlers and the goroutine act at the given instants.
Tick(instants) ==
    /\ \E t \in instants : t > now /\ now' = t
    /\ allowedLog' = [ip \in IPs |->
                        SelectSeq(allowedLog[ip],
                                  LAMBDA t : t > now' - rateLimitWindow)]
    /\ lastResp' = NoResp
    /\ UNCHANGED <<clientSecret, authCodes, authCodesMutex, requests, mu,
                   failedAttempts, nextID, lastSweep, ex, tokensOut,
                   issuedAt, vURL, vResult, flowVars>>

\* ------------------------------------------------------------ provider calls
\* The provider's behaviour towards one operation: how many attempts in a
\* row end in a network error or a 5xx response, and how the next one ends.
\* retry.Do makes at most retryAttempts attempts and stops at the first
\* attempt that succeeds or returns an unrecoverable error.
retryCalls(transient) ==
    IF transient >= retryAttempts THEN retryAttempts ELSE transient + 1

tokenFormatOK(t) ==
    /\ t.len >= 40
    /\ t.len <= 255
    /\ t.prefix \in {"ghp_", "gho_", "ghs_", "ghu_"}

\* exchangeCodeForToken without the validation of the token it received.
exchangeCodeForTokenUnchecked(q) ==
    IF q.codeLen = 0 \/ q.codeLen > maxCodeLen
    THEN [err |-> TRUE, token |-> NoToken, calls |-> 0]
    ELSE IF q.tokTransient >= retryAttempts \/ q.tokFinal # "ok"
    THEN [err |-> TRUE, token |-> NoToken, calls |-> retryCalls(q.tokTransient)]
    ELSE [err |-> FALSE, token |-> q.token, calls |-> retryCalls(q.tokTransient)]

\* exchangeCodeForToken: error or token, and the calls made to the token
\* endpoint.
exchangeCodeForToken(q) ==
    IF q.codeLen = 0 \/ q.codeLen > maxCodeLen
    THEN [err |-> TRUE, token |-> NoToken, calls |-> 0]
    ELSE IF q.tokTransient >= retryAttempts \/ q.tokFinal # "ok"
    THEN [err |-> TRUE, token |-> NoToken, calls |-> retryCalls(q.tokTransient)]
    ELSE IF ~tokenFormatOK(q.token)
    THEN [err |-> TRUE, token |-> NoToken, calls |-> retryCalls(q.tokTransient)]
    ELSE [err |-> FALSE, token |-> q.token, calls |-> retryCalls(q.tokTransient)]

\* userInfo: error or login, and the calls made to the user endpoint.
userInfo(q) ==
    IF q.userTransient >= retryAttempts \/ q.userFinal # "ok"
    THEN [err |-> TRUE, login |-> <<>>, calls |-> retryCalls(q.userTransient)]
    ELSE [err |-> FALSE, login |-> q.login, calls |-> retryCalls(q.userTransient)]

\* ------------------------------------------------------- handleOAuthCallback
\* A callback request: the peer address, whether the error parameter and the
\* installation parameters are non-empty, the state parameter ("" when
\* missing), the oauth_state cookie ("none" when missing), the length of
\* the code parameter, the oauth_return_to cookie (the empty URL when
\* missing or empty), whether the request is secure, and how the provider
\* answers.
CbResp(q) ==
    [NoResp EXCEPT !.endpoint = "callback", !.ip = q.ip,
                   !.errParam = q.errParam, !.install = q.install,
                   !.state = q.state, !.cookie = q.cookie,
                   !.codeLen = q.codeLen,
                   !.returnCookie = q.returnCookie,
                   !.configured = (clientID /\ clientSecret),
                   !.provToken = q.token, !.provLogin = q.login]

\* The error page only for a callback that carries no state parameter.
providerErrorStateless(q) == q.errParam /\ q.state = ""

\* The provider reports an error: the error parameter is non-empty.
providerError(q) == q.errParam

\* The installation page only for a callback without oauth_state cookie.
installationCallbackNoCookie(q) == q.install /\ q.cookie = "none"

\* An installation callback: installation_id and setup_action non-empty.
installationCallback(q) == q.install

\* stateValid that fails for an ip with maxFailedLogins recorded failures
\* within the window.
stateValidUnlessLockedOut(q) ==
    /\ q.state # "" /\ q.cookie # "none" /\ q.cookie = q.state
    /\ Len(After(MapGet(failedAttempts, clientIP(q), <<>>),
                 now - failedLoginWindow)) < maxFailedLogins

\* stateValid without the comparison of cookie and parameter.
stateValidPresentOnly(q) == q.state # "" /\ q.cookie # "none"

stateValid(q) == q.state # "" /\ q.cookie # "none" /\ q.cookie = q.state

redirectTarget(q) ==
    IF validateReturnToURL(q.returnCookie) = EmptyURL
    THEN URL(IF q.secure THEN "https" ELSE "http", MyHost)
    ELSE validateReturnToURL(q.returnCookie)

\* The response of the callback and what it did on the way; issued is set
\* by the action when a code is stored.
callbackOutcome(q) ==
    IF ~clientID \/ ~clientSecret
    THEN [CbResp(q) EXCEPT !.status = 503, !.msg = "Service temporarily unavailable"]
    ELSE IF providerError(q)
    THEN [CbResp(q) EXCEPT !.status = 200, !.msg = "Authentication Failed"]
    ELSE IF installationCallback(q)
    THEN [CbResp(q) EXCEPT !.status = 200, !.msg = "GitHub App Installed Successfully"]
    ELSE IF q.state = ""
    THEN [CbResp(q) EXCEPT !.status = 400, !.msg = "Missing state parameter",
                           !.tracked = TRUE, !.clearedState = TRUE]
    ELSE IF ~stateValid(q)
    THEN [CbResp(q) EXCEPT !.status = 400, !.msg = "Invalid state",
                           !.tracked = TRUE, !.clearedState = TRUE]
    ELSE IF q.codeLen = 0 \/ q.codeLen > maxCodeLen
    THEN [CbResp(q) EXCEPT !.status = 400, !.msg = "Invalid authorization code",
                           !.tracked = TRUE, !.clearedState = TRUE]
    ELSE IF exchangeCodeForToken(q).err
    THEN [CbResp(q) EXCEPT !.status = 500, !.msg = "Authentication failed",
                           !.tracked = TRUE,
                           !.tokenCalls = exchangeCodeForToken(q).calls]
    ELSE IF userInfo(q).err
    THEN [CbResp(q) EXCEPT !.status = 500, !.msg = "Failed to get user info",
                           !.tokenCalls = exchangeCodeForToken(q).calls,
                           !.userCalls = userInfo(q).calls]
    ELSE IF ~isValidGitHubHandle(userInfo(q).login)
    THEN [CbResp(q) EXCEPT !.status = 400, !.msg = "Invalid username format",
                           !.tokenCalls = exchangeCodeForToken(q).calls,
                           !.userCalls = userInfo(q).calls]
    ELSE [CbResp(q) EXCEPT !.status = 302, !.msg = "Found",
                           !.clearedState = TRUE,
                           !.clearedReturnTo = (q.returnCookie # EmptyURL),
                           !.tokenCalls = exchangeCodeForToken(q).calls,
                           !.userCalls = userInfo(q).calls,
                           !.location = redirectTarget(q)]

\* The entry the callback stores for its one-time code.
newAuthCodeData(q) ==
    [expiry |-> now + authCodeTTL,
     token |-> exchangeCodeForToken(q).token,
     username |-> userInfo(q).login,
     returnTo |-> redirectTarget(q),
     used |-> FALSE]

\* A generator that hands out its previous identifier again.
generateIDRepeated == IF nextID = 0 THEN 1 ELSE nextID

\* generateID: a fresh identifier, the next one never produced before.
generateID == nextID + 1

\* The handler in a run that issues at most max codes.
handleOAuthCallbackUpTo(q, max) ==
    LET out == callbackOutcome(q) IN
    /\ IF out.status = 302
       THEN /\ generateID <= max
            /\ authCodesLockFree
            /\ nextID' = generateID
            /\ authCodes' = MapPut(authCodes, generateID, newAuthCodeData(q))
            /\ issuedAt' = [issuedAt EXCEPT ![generateID] = now]
            /\ lastResp' = [out EXCEPT !.issued = generateID,
                                       !.fragment = generateID]
       ELSE /\ lastResp' =
                 [out EXCEPT !.logged =
                    out.tracked /\ excessiveFailures(failedAttempts, clientIP(q))]
            /\ UNCHANGED <<nextID, authCodes, issuedAt>>
    /\ IF out.tracked
       THEN /\ Len(After(MapGet(failedAttempts, clientIP(q), <<>>),
                          now - failedLoginWindow)) < MaxFailed
            /\ failedAttempts' = trackFailedAttempt(failedAttempts, clientIP(q))
       ELSE UNCHANGED failedAttempts
    /\ UNCHANGED <<now, clientID, clientSecret, authCodesMutex, requests, mu,
                   lastSweep, ex, tokensOut, allowedLog, vURL, vResult,
                   vHandle, vHandleOK, cb, redir, crashed, ws>>

handleOAuthCallbackServer(q) == handleOAuthCallbackUpTo(q, MaxCodes)

\* The callback of a client whose cookies are not followed.
handleOAuthCallback(q) ==
    /\ handleOAuthCallbackServer(q)
    /\ UNCHANGED <<jar, watch>>

\* ------------------------------------------- handleOAuthCallback, by attempt
\* The callback with its provider operations taken one attempt at a time,
\* so that the cancellation of r.Context() can fall between two attempts.
\* cb holds the request q, the position (token: in exchangeCodeForToken,
\* user: in userInfo, issue: userInfo has returned, done: response
\* written), whether the context is cancelled, the attempts n made by the
\* operation under way, the requests sent to either endpoint, and how the
\* last attempt ended.

\* How attempt k of an operation ends: transient is a network error or a
\* 5xx response.
attemptOutcome(transient, final, k) ==
    IF k <= transient THEN "transient" ELSE final

\* Every attempt that does not succeed is tried again.
retryableNotOK(outcome) == outcome # "ok"

\* The attempt returned a plain error, not retry.Unrecoverable.
retryable(outcome) == outcome = "transient"

\* One attempt more than retry.Attempts allows.
attemptsLeftOneMore(n) == n <= retryAttempts

\* retry.Attempts(10): another attempt may follow n attempts.
attemptsLeft(n) == n < retryAttempts

\* The context is never seen as cancelled.
ctxErrNever(c) == FALSE

\* retry.Context(ctx): ctx.Err() is non-nil.
ctxErr(c) == c.ctxDone

\* A handler that goes on to the provider whatever the state parameter is.
reachesProviderAnyState(q) ==
    /\ clientID /\ clientSecret
    /\ ~providerError(q) /\ ~installationCallback(q)
    /\ q.codeLen > 0 /\ q.codeLen <= maxCodeLen

\* The callback gets as far as exchangeCodeForToken.
reachesProvider(q) ==
    /\ clientID /\ clientSecret
    /\ ~providerError(q) /\ ~installationCallback(q)
    /\ stateValid(q)
    /\ q.codeLen > 0 /\ q.codeLen <= maxCodeLen

CbDone(c, status, msg, tracked) ==
    [CbResp(c.q) EXCEPT !.status = status, !.msg = msg, !.tracked = tracked,
                        !.tokenCalls = c.tokenCalls,
                        !.userCalls = c.userCalls,
                        !.cancelled = c.ctxDone]

cbFrame ==
    UNCHANGED <<now, clientID, clientSecret, authCodesMutex, requests, mu,
                lastSweep, ex, tokensOut, allowedLog, vURL, vResult,
                vHandle, vHandleOK, jar, auxVars>>

CbStart(q) ==
    /\ cb.pc \in {"idle", "done"}
    /\ reachesProvider(q)
    /\ cb' = [pc |-> "token", q |-> q, ctxDone |-> FALSE, n |-> 0,
              tokenCalls |-> 0, userCalls |-> 0, last |-> ""]
    /\ lastResp' = NoResp
    /\ UNCHANGED <<authCodes, nextID, issuedAt, failedAttempts>>
    /\ cbFrame

\* exchangeCodeForToken returned an error.
CbTokenFailed(c) ==
    /\ Len(After(MapGet(failedAttempts, clientIP(c.q), <<>>),
                 now - failedLoginWindow)) < MaxFailed
    /\ failedAttempts' = trackFailedAttempt(failedAttempts, clientIP(c.q))
    /\ cb' = [c EXCEPT !.pc = "done"]
    /\ lastResp' = [CbDone(c, 500, "Authentication failed", TRUE) EXCEPT
                      !.logged = excessiveFailures(failedAttempts, clientIP(c.q))]

\* userInfo returned an error.
CbUserFailed(c) ==
    /\ cb' = [c EXCEPT !.pc = "done"]
    /\ lastResp' = CbDone(c, 500, "Failed to get user info", FALSE)
    /\ UNCHANGED failedAttempts

TokenAttempt ==
    /\ cb.pc = "token"
    /\ ~ctxErr(cb)
    /\ attemptsLeft(cb.n)
    /\ LET o == attemptOutcome(cb.q.tokTransient, cb.q.tokFinal, cb.n + 1)
           c == [cb EXCEPT !.n = @ + 1, !.tokenCalls = @ + 1, !.last = o]
       IN IF retryable(o) /\ attemptsLeft(c.n)
          THEN cb' = c /\ lastResp' = NoResp /\ UNCHANGED failedAttempts
          ELSE IF o = "ok" /\ tokenFormatOK(cb.q.token)
          THEN /\ cb' = [c EXCEPT !.pc = "user", !.n = 0]
               /\ lastResp' = NoResp
               /\ UNCHANGED failedAttempts
          ELSE CbTokenFailed(c)
    /\ UNCHANGED <<authCodes, nextID, issuedAt>>
    /\ cbFrame

TokenAbort ==
    /\ cb.pc = "token"
    /\ ctxErr(cb)
    /\ CbTokenFailed(cb)
    /\ UNCHANGED <<authCodes, nextID, issuedAt>>
    /\ cbFrame

UserAttempt ==
    /\ cb.pc = "user"
    /\ ~ctxErr(cb)
    /\ attemptsLeft(cb.n)
    /\ LET o == attemptOutcome(cb.q.userTransient, cb.q.userFinal, cb.n + 1)
           c == [cb EXCEPT !.n = @ + 1, !.userCalls = @ + 1, !.last = o]
       IN IF retryable(o) /\ attemptsLeft(c.n)
          THEN cb' = c /\ lastResp' = NoResp /\ UNCHANGED failedAttempts
          ELSE IF o = "ok"
          THEN /\ cb' = [c EXCEPT !.pc = "issue"]
               /\ lastResp' = NoResp
               /\ UNCHANGED failedAttempts
          ELSE CbUserFailed(c)
    /\ UNCHANGED <<authCodes, nextID, issuedAt>>
    /\ cbFrame

UserAbort ==
    /\ cb.pc = "user"
    /\ ctxErr(cb)
    /\ CbUserFailed(cb)
    /\ UNCHANGED <<authCodes, nextID, issuedAt>>
    /\ cbFrame

\* The rest of the handler after userInfo has returned; it does not look
\* at the context.
CbIssue ==
    /\ cb.pc = "issue"
    /\ cb' = [cb EXCEPT !.pc = "done"]
    /\ IF ~isValidGitHubHandle(cb.q.login)
       THEN /\ lastResp' = CbDone(cb, 400, "Invalid username format", FALSE)
            /\ UNCHANGED <<authCodes, nextID, issuedAt>>
       ELSE /\ generateID <= MaxCodes
            /\ authCodesLockFree
            /\ nextID' = generateID
            /\ authCodes' = MapPut(authCodes, generateID, newAuthCodeData(cb.q))
            /\ issuedAt' = [issuedAt EXCEPT ![generateID] = now]
            /\ lastResp' =
                 [CbDone(cb, 302, "Found", FALSE) EXCEPT
                    !.clearedState = TRUE,
                    !.clearedReturnTo = (cb.q.returnCookie # EmptyURL),
                    !.location = redirectTarget(cb.q),
                    !.issued = generateID,
                    !.fragment = generateID]
    /\ UNCHANGED failedAttempts
    /\ cbFrame

\* The client disconnects or the server shuts down: r.Context() is done.
CbCancel ==
    /\ cb.pc \in {"token", "user", "issue"}
    /\ ~cb.ctxDone
    /\ cb' = [cb EXCEPT !.ctxDone = TRUE]
    /\ lastResp' = NoResp
    /\ UNCHANGED <<authCodes, nextID, issuedAt, failedAttempts>>
    /\ cbFrame

\* ------------------------------------------------------------ handleGetUser
\* A request to /oauth/user: its Authorization header (missing, without the
\* Bearer prefix, or a bearer token) and how the provider answers.
handleGetUserOutcome(q) ==
    IF q.auth = ""
    THEN [NoResp EXCEPT !.endpoint = "user", !.ip = q.ip, !.status = 401,
                        !.msg = "Missing authorization header"]
    ELSE IF q.auth # "Bearer"
    THEN [NoResp EXCEPT !.endpoint = "user", !.ip = q.ip, !.status = 401,
                        !.msg = "Invalid authorization header"]
    ELSE IF userInfo(q).err
    THEN [NoResp EXCEPT !.endpoint = "user", !.ip = q.ip, !.status = 500,
                        !.msg = "Failed to get user info",
                        !.userCalls = userInfo(q).calls]
    ELSE [NoResp EXCEPT !.endpoint = "user", !.ip = q.ip, !.status = 200,
                        !.msg = "user", !.username = userInfo(q).login,
                        !.userCalls = userInfo(q).calls]

handleGetUserRoute(q) ==
    /\ lastResp' = handleGetUserOutcome(q)
    /\ UNCHANGED <<now, clientSecret, authCodes, authCodesMutex, requests, mu,
                   failedAttempts, nextID, lastSweep, ex, tokensOut, issuedAt,
                   allowedLog, vURL, vResult, clientID, vHandle, vHandleOK,
                   jar, cb, redir, crashed, ws>>

handleGetUser(q) ==
    /\ handleGetUserRoute(q)
    /\ UNCHANGED watch

\* --------------------------------------------------------- handleOAuthLogin
\* fmt.Sprintf("%s://%s/", scheme, host)
SchemeChars(scheme) ==
    IF scheme = "https" THEN <<"h","t","t","p","s">> ELSE <<"h","t","t","p">>
UrlString(scheme, host) ==
    SchemeChars(scheme) \o <<":","/","/">> \o host \o <<"/">>

\* url.QueryEscape: letters, digits and - _ . ~ stay, a space becomes +,
\* every other byte becomes % and its two hex digits.
EscapeCodes ==
    [c \in {":", "/", "?", "#", "&", "=", "%", "@", "*", "+"} |->
        CASE c = ":" -> <<"%","3","A">>
          [] c = "/" -> <<"%","2","F">>
          [] c = "?" -> <<"%","3","F">>
          [] c = "#" -> <<"%","2","3">>
          [] c = "&" -> <<"%","2","6">>
          [] c = "=" -> <<"%","3","D">>
          [] c = "%" -> <<"%","2","5">>
          [] c = "@" -> <<"%","4","0">>
          [] c = "*" -> <<"%","2","A">>
          [] c = "+" -> <<"%","2","B">>]

RECURSIVE QueryEscape(_)
QueryEscape(s) ==
    IF s = <<>> THEN <<>>
    ELSE (IF Head(s) \in DOMAIN EscapeCodes THEN EscapeCodes[Head(s)]
          ELSE IF Head(s) = " " THEN <<"+">>
          ELSE <<Head(s)>>) \o QueryEscape(Tail(s))

\* r.URL.Query().Get: the value with + and %XX decoded.
RECURSIVE QueryUnescape(_)
QueryUnescape(s) ==
    IF s = <<>> THEN <<>>
    ELSE IF Head(s) = "%" /\ Len(s) >= 3
    THEN <<CHOOSE c \in DOMAIN EscapeCodes : EscapeCodes[c] = SubSeq(s, 1, 3)>>
         \o QueryUnescape(SubSeq(s, 4, Len(s)))
    ELSE IF Head(s) = "+" THEN <<" ">> \o QueryUnescape(Tail(s))
    ELSE <<Head(s)>> \o QueryUnescape(Tail(s))

\* A login request: the host it was received on (X-Original-Host, else
\* Host), whether it is secure, and the raw return_to query value (empty
\* when absent).
LoginResp(q) ==
    [NoResp EXCEPT !.endpoint = "login", !.ip = q.ip, !.host = q.host,
                   !.scheme = IF q.secure THEN "https" ELSE "http"]

\* handleOAuthLogin that generates the state and sets its cookie before
\* it looks at the host.
handleOAuthLoginEarlyState(q, state) ==
    IF ~clientID
    THEN [LoginResp(q) EXCEPT !.status = 503,
                              !.msg = "Service temporarily unavailable"]
    ELSE IF ~EqualFold(q.host, baseDomain)
    THEN [LoginResp(q) EXCEPT
            !.status = 302, !.msg = "Found",
            !.locScheme = LoginResp(q).scheme,
            !.locPath = "/oauth/login",
            !.locHost = baseDomain,
            !.locQuery = QueryEscape(UrlString(LoginResp(q).scheme, q.host)),
            !.mintedState = state,
            !.setStateCookie = state]
    ELSE [LoginResp(q) EXCEPT
            !.status = 302, !.msg = "Found",
            !.locScheme = "https",
            !.locPath = "/login/oauth/authorize",
            !.locHost = <<"g","i","t","h","u","b",".","c","o","m">>,
            !.mintedState = state,
            !.setStateCookie = state,
            !.setReturnCookie = QueryUnescape(q.returnTo)]

\* The response of handleOAuthLogin when generateID(16) yields state.
handleOAuthLoginOutcome(q, state) ==
    IF ~clientID
    THEN [LoginResp(q) EXCEPT !.status = 503,
                              !.msg = "Service temporarily unavailable"]
    ELSE IF ~EqualFold(q.host, baseDomain)
    THEN [LoginResp(q) EXCEPT
            !.status = 302, !.msg = "Found",
            !.locScheme = LoginResp(q).scheme,
            !.locPath = "/oauth/login",
            !.locHost = baseDomain,
            !.locQuery = QueryEscape(UrlString(LoginResp(q).scheme, q.host))]
    ELSE [LoginResp(q) EXCEPT
            !.status = 302, !.msg = "Found",
            !.locScheme = "https",
            !.locPath = "/login/oauth/authorize",
            !.locHost = <<"g","i","t","h","u","b",".","c","o","m">>,
            !.mintedState = state,
            !.setStateCookie = state,
            !.setReturnCookie = QueryUnescape(q.returnTo)]

\* The states generateID(16) can yield.
StateTokens == {"A", "B"}

\* handleOAuthLogin, and the browser storing the cookies of the response.
handleOAuthLoginRoute(q) ==
    /\ \E state \in StateTokens :
          LET out == handleOAuthLoginOutcome(q, state) IN
          /\ lastResp' = out
          /\ jar' = [state |-> IF out.setStateCookie # ""
                               THEN out.setStateCookie ELSE jar.state,
                     returnTo |-> IF out.setReturnCookie # <<>>
                                  THEN out.setReturnCookie ELSE jar.returnTo,
                     used |-> jar.used \ {out.mintedState}]
    /\ UNCHANGED <<now, clientID, clientSecret, authCodes, authCodesMutex,
                   requests, mu, failedAttempts, nextID, lastSweep, ex,
                   tokensOut, issuedAt, allowedLog, vURL, vResult, vHandle,
                   vHandleOK, cb, redir, crashed, ws>>

handleOAuthLogin(q) ==
    /\ handleOAuthLoginRoute(q)
    /\ UNCHANGED watch

\* ------------------------------------------ the redirect with the auth code
\* The oauth_return_to cookie as a string: scheme, host and what follows
\* the host (path, query and fragment); absent when parts is FALSE.
CookieString(c) ==
    IF ~c.parts THEN <<>> ELSE SchemeChars(c.scheme) \o <<":","/","/">> \o c.host \o c.rest

\* validateReturnToURL on the cookie's string: url.Parse takes scheme and
\* host from it, and the string itself is returned when they are accepted.
validateReturnToString(c) ==
    IF ~c.parts THEN <<>>
    ELSE IF validateReturnToURL(URL(c.scheme, c.host)) = EmptyURL THEN <<>>
    ELSE CookieString(c)

\* redirectURL: the validated cookie value, else the personal workspace.
redirectURL(c, secure) ==
    IF validateReturnToString(c) = <<>>
    THEN SchemeChars(IF secure THEN "https" ELSE "http")
         \o <<":","/","/">> \o MyHost
    ELSE validateReturnToString(c)

AuthCodeMarker == <<"#","a","u","t","h","_","c","o","d","e","=">>

\* The code put into the query string.
redirectWithCodeInQuery(url, code) ==
    url \o <<"?","a","u","t","h","_","c","o","d","e","=">> \o QueryEscape(code)

\* fmt.Sprintf("%s#auth_code=%s", redirectURL, url.QueryEscape(authCode))
redirectWithCode(url, code) == url \o AuthCodeMarker \o QueryEscape(code)

\* The end of a successful callback: the destination is stored with the
\* code and the Location of the 302 is built.
BuildRedirect(c, secure) ==
    /\ redir.location = <<>>
    /\ redir' = [redir EXCEPT
                   !.cookie = CookieString(c),
                   !.returnTo = redirectURL(c, secure),
                   !.location = redirectWithCode(redirectURL(c, secure),
                                                 redir.code)]
    /\ UNCHANGED <<now, clientID, clientSecret, authCodes, authCodesMutex,
                   requests, mu, failedAttempts, nextID, lastSweep, ex,
                   lastResp, tokensOut, issuedAt, allowedLog, vURL, vResult,
                   vHandle, vHandleOK, jar, cb, crashed, ws, watch>>

\* ------------------------------------------------- generateID: rand.Read
\* rand.Read returns an error, generateID panics in the handler's goroutine
\* and net/http recovers the panic: the connection is dropped and the
\* process goes on.
randReadFailurePanics(caller) == "panic"

\* crypto/rand.Read of the Go release this program needs (1.25, for
\* http.CrossOriginProtection) returns no error: when the random source
\* fails it ends the program, so the err branch of generateID is not taken.
randReadFailure(caller) == "exit"

\* The random source fails in a generateID call made for a request: by the
\* request-id middleware, by the login or by the callback. No response is
\* written and nothing is stored.
generateIDFails(caller) ==
    /\ ~crashed
    /\ crashed' = (randReadFailure(caller) = "exit")
    /\ lastResp' = [NoResp EXCEPT !.endpoint = caller, !.aborted = TRUE]
    /\ UNCHANGED <<now, clientID, clientSecret, authCodes, authCodesMutex,
                   requests, mu, failedAttempts, nextID, lastSweep, ex,
                   tokensOut, issuedAt, allowedLog, vURL, vResult,
                   vHandle, vHandleOK, jar, cb, redir, ws, watch>>

\* ------------------------------------------------- the browser's callback
\* url.Parse of a cookie value, over the URLs a login can have stored.
OrgHostLower ==
    <<"k","8","s",".","r","e","v","i","e","w","g","o","o","s","e",".","d","e","v">>
parseURL(str) ==
    LET known == { URL(sch, h) : sch \in {"http", "https"},
                                 h \in {MyHost, OrgHost, EvilHost,
                                        OrgHostLower} }
        hits == { u \in known : UrlString(u.scheme, u.host) = str }
    IN IF str = <<>> THEN EmptyURL
       ELSE IF hits = {} THEN [parses |-> FALSE, scheme |-> "", host |-> <<>>]
       ELSE CHOOSE u \in hits : TRUE

\* The callback passed the state validation.
passesState(q) ==
    /\ clientID /\ clientSecret
    /\ ~providerError(q) /\ ~installationCallback(q)
    /\ stateValid(q)

\* A callback sent by the browser: it carries the browser's cookies, and
\* the browser drops the cookies that the response clears.
BrowserCallback(q) ==
    LET r == [q EXCEPT !.cookie = jar.state,
                       !.returnCookie = parseURL(jar.returnTo)]
        out == callbackOutcome(r)
    IN /\ handleOAuthCallbackServer(r)
       /\ jar' = [state |-> IF out.clearedState THEN "none" ELSE jar.state,
                  returnTo |-> IF out.clearedReturnTo THEN <<>>
                               ELSE jar.returnTo,
                  used |-> IF passesState(r) THEN jar.used \cup {r.state}
                           ELSE jar.used]
       /\ UNCHANGED watch

\* ------------------------------------------------------------------ inputs
\* A callback that the provider answers at once with token t for user u.
GoodCallback(ip, t, u, rt) ==
    [ip |-> ip, errParam |-> FALSE, install |-> FALSE, state |-> "A",
     cookie |-> "A", codeLen |-> 20, tokTransient |-> 0, tokFinal |-> "ok",
     token |-> t, userTransient |-> 0, userFinal |-> "ok", login |-> u,
     returnCookie |-> rt, secure |-> TRUE]

IssuingCallbacks ==
    { GoodCallback("10.0.0.1", TokenA, Alice, EmptyURL),
      GoodCallback("10.0.0.1", TokenB, Bob, URL("https", OrgHost)) }

UserRequests ==
    { [ip |-> "10.0.0.2", auth |-> a, userTransient |-> 0, userFinal |-> f,
       login |-> Alice] :
        a \in {"", "Basic", "Bearer"}, f \in {"ok", "4xx"} }
MainUserRequests == {q \in UserRequests : q.auth = "Bearer" /\ q.userFinal = "ok"}

\* Exchange requests of a page of the same origin, and of a foreign page.
SameOriginHeaders == [site |-> "same-origin", origin |-> URL("https", MyHost)]
CrossSiteHeaders == [site |-> "cross-site", origin |-> URL("https", EvilHost)]

ExchangeRequests(ips) ==
    { ExReq(ip, "POST", "malformed", 0, SameOriginHeaders.site,
            SameOriginHeaders.origin, MyHost) : ip \in ips }
    \cup
    { ExReq(ip, "POST", "code", c, SameOriginHeaders.site,
            SameOriginHeaders.origin, MyHost) : ip \in ips, c \in Codes }
    \cup
    { ExReq(ip, "POST", "code", 1, CrossSiteHeaders.site,
            CrossSiteHeaders.origin, MyHost) : ip \in ips }

\* The exchange requests that the limiter has let pass or that are on
\* their way to it.
Admitted ==
    Cardinality({r \in Reqs : ex[r].pc # "idle"})
    + Len(allowedLog["10.0.0.1"]) + Len(allowedLog["10.0.0.2"])

\* ----------------------------------------------------------- specifications
Init ==
    /\ now = 0
    /\ clientSecret = TRUE
    /\ authCodes = EmptyMap
    /\ authCodesMutex = 0
    /\ requests = EmptyMap
    /\ mu = 0
    /\ failedAttempts = EmptyMap
    /\ nextID = 0
    /\ lastSweep = 0
    /\ ex = [r \in Reqs |-> IdleReq]
    /\ lastResp = NoResp
    /\ tokensOut = [c \in 1..(MaxCodes + 1) |-> 0]
    /\ issuedAt = [c \in 1..(MaxCodes + 1) |-> -1]
    /\ allowedLog = [ip \in IPs |-> <<>>]
    /\ vURL = EmptyURL
    /\ vResult = EmptyURL
    /\ clientID = TRUE
    /\ vHandle = <<>>
    /\ vHandleOK = "pending"
    /\ jar = EmptyJar
    /\ cb = IdleCb
    /\ AuxInit

\* The code store: callbacks that issue codes, exchange requests of two
\* clients, the cleanup goroutine, and time in steps of the code lifetime.
Arrive ==
    \E r \in Reqs :
        \E q \in ExchangeRequests({"10.0.0.1"}) :
            Admitted < MaxAdmitted /\ ExArrive(r, q)
Limit == \E r \in Reqs : ExLimit(r)
Lock == \E r \in Reqs : ExLock(r)
Consume == \E r \in Reqs : ExConsume(r)
Callback == \E q \in IssuingCallbacks : handleOAuthCallback(q)
GetUser == \E q \in MainUserRequests : handleGetUser(q)
Instants == {0, authCodeTTL, sweepInterval}
Clock == Tick(Instants)

Next ==
    \/ Arrive
    \/ Limit
    \/ Lock
    \/ Consume
    \/ Callback
    \/ GetUser
    \/ Sweep
    \/ Clock

Spec == Init /\ [][Next]_vars

\* The callback alone: every shape of callback request, with OAuth
\* configured or not, the cleanup goroutine, and time up to the window of
\* the failed-attempt tracker.
StateStageCallbacks ==
    { [GoodCallback("10.0.0.1", TokenA, Alice, EmptyURL)
         EXCEPT !.errParam = e, !.install = i, !.state = s, !.cookie = c] :
        e \in BOOLEAN, i \in BOOLEAN, s \in {"", "A", "B"},
        c \in {"none", "A"} }
    \cup
    { [GoodCallback("10.0.0.1", TokenA, Alice, URL("https", OrgHost))
         EXCEPT !.errParam = e, !.install = i, !.codeLen = 0] :
        e \in BOOLEAN, i \in BOOLEAN }
    \cup
    { [GoodCallback("10.0.0.2", TokenA, Alice, EmptyURL)
         EXCEPT !.state = "B"] }

ProviderStageCallbacks ==
    { [GoodCallback("10.0.0.1", TokenA, Alice, EmptyURL)
         EXCEPT !.codeLen = n] : n \in {0, maxCodeLen + 1} }
    \cup
    { [GoodCallback("10.0.0.1", TokenA, Alice, EmptyURL)
         EXCEPT !.tokTransient = k, !.tokFinal = "4xx"] :
        k \in {1, retryAttempts} }
    \cup
    { GoodCallback("10.0.0.1", t, Alice, EmptyURL) :
        t \in {TokenShort, TokenAlien} }
    \cup
    { [GoodCallback("10.0.0.1", TokenA, BadLogin, URL("https", EvilHost))
         EXCEPT !.userFinal = f] : f \in {"ok", "4xx"} }

CallbackRequests == StateStageCallbacks \cup ProviderStageCallbacks

InitCallback ==
    /\ now = 0
    /\ clientSecret \in BOOLEAN
    /\ authCodes = EmptyMap
    /\ authCodesMutex = 0
    /\ requests = EmptyMap
    /\ mu = 0
    /\ failedAttempts = EmptyMap
    /\ nextID = 0
    /\ lastSweep = 0
    /\ ex = [r \in Reqs |-> IdleReq]
    /\ lastResp = NoResp
    /\ tokensOut = [c \in 1..(MaxCodes + 1) |-> 0]
    /\ issuedAt = [c \in 1..(MaxCodes + 1) |-> -1]
    /\ allowedLog = [ip \in IPs |-> <<>>]
    /\ vURL = EmptyURL
    /\ vResult = EmptyURL
    /\ clientID = TRUE
    /\ vHandle = <<>>
    /\ vHandleOK = "pending"
    /\ jar = EmptyJar
    /\ cb = IdleCb
    /\ AuxInit

AnyCallback == \E q \in CallbackRequests : handleOAuthCallback(q)
CallbackInstants == {0, failedLoginWindow}
CallbackClock == Tick(CallbackInstants)

NextCallback ==
    \/ AnyCallback
    \/ Sweep
    \/ CallbackClock

SpecCallback == InitCallback /\ [][NextCallback]_vars

\* The limiter in front of the exchange handler: bursts of requests of
\* one client next to a second client, a foreign page, one code in the
\* store (issued at time 0 by a callback), and time in half windows.
LimiterRequests ==
    { ExReq("10.0.0.1", "POST", b, c, SameOriginHeaders.site,
            SameOriginHeaders.origin, MyHost) :
        b \in {"malformed", "missing", "code"}, c \in {1} }
    \cup
    { ExReq("10.0.0.2", "POST", "malformed", 1, SameOriginHeaders.site,
            SameOriginHeaders.origin, MyHost),
      ExReq("10.0.0.1", "POST", "code", 1, CrossSiteHeaders.site,
            CrossSiteHeaders.origin, MyHost) }

\* The requests of ip on their way to the limiter or inside the handler.
Pending(ip) == Cardinality({r \in Reqs : ex[r].pc # "idle" /\ ex[r].ip = ip})
Burst(ip) == IF ip = "10.0.0.1" THEN MaxBurst ELSE 1

InitLimiter ==
    /\ now = 0
    /\ clientSecret = TRUE
    /\ authCodes = MapPut(EmptyMap, 1,
                          newAuthCodeData(GoodCallback("10.0.0.1", TokenA,
                                                       Alice, EmptyURL)))
    /\ authCodesMutex = 0
    /\ requests = EmptyMap
    /\ mu = 0
    /\ failedAttempts = EmptyMap
    /\ nextID = 1
    /\ lastSweep = 0
    /\ ex = [r \in Reqs |-> IdleReq]
    /\ lastResp = NoResp
    /\ tokensOut = [c \in 1..(MaxCodes + 1) |-> 0]
    /\ issuedAt = [c \in 1..(MaxCodes + 1) |-> IF c = 1 THEN 0 ELSE -1]
    /\ allowedLog = [ip \in IPs |-> <<>>]
    /\ vURL = EmptyURL
    /\ vResult = EmptyURL
    /\ clientID = TRUE
    /\ vHandle = <<>>
    /\ vHandleOK = "pending"
    /\ jar = EmptyJar
    /\ cb = IdleCb
    /\ AuxInit

BurstArrive ==
    \E r \in Reqs :
        \E q \in LimiterRequests :
            /\ Pending(q.ip) + Len(allowedLog[q.ip]) < Burst(q.ip)
            /\ ExArrive(r, q)
LimiterInstants == {0, rateLimitWindow \div 2, rateLimitWindow}
LimiterClock == Tick(LimiterInstants)

NextLimiter ==
    \/ BurstArrive
    \/ Limit
    \/ Lock
    \/ Consume
    \/ LimiterClock

SpecLimiter == InitLimiter /\ [][NextLimiter]_vars

\* The guard in front of the limiter: exchange requests with every mix of
\* method, Sec-Fetch-Site and Origin, sent to the my.<base domain> host,
\* with one code in the store.
GuardOrigins ==
    { NoOrigin, URL("https", baseDomain), URL("https", OrgHost),
      URL("https", MyHost), URL("http", LocalHost), URL("https", EvilHost),
      URL("http", OrgHost) }

GuardRequests ==
    { ExReq("10.0.0.1", m, "code", 1, site, origin, MyHost) :
        m \in {"POST", "GET"},
        site \in {"", "same-origin", "same-site", "cross-site"},
        origin \in GuardOrigins }

GuardArrive ==
    \E r \in Reqs :
        \E q \in GuardRequests :
            Admitted < MaxAdmitted /\ ExArrive(r, q)

NextGuard ==
    \/ GuardArrive
    \/ Limit
    \/ Lock
    \/ Consume

SpecGuard == InitLimiter /\ [][NextGuard]_vars

\* validateReturnToURL alone: a return-to URL drawn from the hosts and
\* schemes below is validated once.
NotValidated == [parses |-> FALSE, scheme |-> "pending", host |-> <<>>]

ReturnToLabels ==
    { <<>>, <<"m","y">>, <<"k","8","s">>, <<"W","W","W">>, <<"a","p","i">>,
      <<"-","b","o","b">>, <<"b","o","b","-">>, <<"a","_","b">>,
      <<"x","n","-","-","p">>, <<"e","v","i","l">>, <<"k","8","s",".","a">>,
      <<"k","8","s",".","a","_","b">>, <<"a","_","b",".","k","8","s">>,
      <<"m","y",".","x","n","-","-","p">> }

ReturnToDomains ==
    { baseDomain,
      <<"e","v","i","l">> \o baseDomain,
      baseDomain \o <<".","e","v","i","l",".","d","e","v">>,
      <<"r","e","v","i","e","w","g","o","o","s","e",".","d","e","v">>,
      <<"d","e","v">>,
      EvilHost }

ReturnToHosts ==
    { IF l = <<>> THEN dom ELSE l \o <<".">> \o dom :
        l \in ReturnToLabels, dom \in ReturnToDomains }
    \cup {<<>>, LocalHost}

ReturnToURLs ==
    { [parses |-> p, scheme |-> sch, host |-> h] :
        p \in BOOLEAN, sch \in {"https", "http", "javascript", ""},
        h \in ReturnToHosts }
    \cup {EmptyURL}

InitValidate ==
    /\ now = 0
    /\ clientSecret = TRUE
    /\ authCodes = EmptyMap
    /\ authCodesMutex = 0
    /\ requests = EmptyMap
    /\ mu = 0
    /\ failedAttempts = EmptyMap
    /\ nextID = 0
    /\ lastSweep = 0
    /\ ex = [r \in Reqs |-> IdleReq]
    /\ lastResp = NoResp
    /\ tokensOut = [c \in 1..(MaxCodes + 1) |-> 0]
    /\ issuedAt = [c \in 1..(MaxCodes + 1) |-> -1]
    /\ allowedLog = [ip \in IPs |-> <<>>]
    /\ vURL \in ReturnToURLs
    /\ vResult = NotValidated
    /\ clientID = TRUE
    /\ vHandle = <<>>
    /\ vHandleOK = "pending"
    /\ jar = EmptyJar
    /\ cb = IdleCb
    /\ AuxInit

Validate ==
    /\ vResult = NotValidated
    /\ vResult' = validateReturnToURL(vURL)
    /\ UNCHANGED <<now, clientSecret, authCodes, authCodesMutex, requests, mu,
                   failedAttempts, nextID, lastSweep, ex, lastResp, tokensOut,
                   issuedAt, allowedLog, vURL, flowVars>>

NextValidate == Validate

SpecValidate == InitValidate /\ [][NextValidate]_vars

\* isValidGitHubHandle alone: a string drawn from the short strings over
\* a small alphabet and from strings around the length limit is checked
\* once.
HandleAlphabet == {"a", "Z", "7", "-", "_", "."}
Repeat(c, n) == [i \in 1..n |-> c]

HandleInputs ==
    {<<>>}
    \cup { <<a>> : a \in HandleAlphabet }
    \cup { <<a, b>> : a \in HandleAlphabet, b \in HandleAlphabet }
    \cup { <<a, b, c>> :
             a \in HandleAlphabet, b \in HandleAlphabet, c \in HandleAlphabet }
    \cup { <<"a">> \o m \o <<"b">> :
             m \in {<<"-","-">>, <<"-","-","-">>, <<"-","x","-">>} }
    \cup { Repeat("a", n) : n \in (maxHandleLen - 1)..(maxHandleLen + 1) }
    \cup { Repeat("a", n) \o <<"-", "b">> :
             n \in (maxHandleLen - 3)..(maxHandleLen - 1) }

InitHandle ==
    /\ now = 0
    /\ clientSecret = TRUE
    /\ authCodes = EmptyMap
    /\ authCodesMutex = 0
    /\ requests = EmptyMap
    /\ mu = 0
    /\ failedAttempts = EmptyMap
    /\ nextID = 0
    /\ lastSweep = 0
    /\ ex = [r \in Reqs |-> IdleReq]
    /\ lastResp = NoResp
    /\ tokensOut = [c \in 1..(MaxCodes + 1) |-> 0]
    /\ issuedAt = [c \in 1..(MaxCodes + 1) |-> -1]
    /\ allowedLog = [ip \in IPs |-> <<>>]
    /\ vURL = EmptyURL
    /\ vResult = EmptyURL
    /\ clientID = TRUE
    /\ vHandle \in HandleInputs
    /\ vHandleOK = "pending"
    /\ jar = EmptyJar
    /\ cb = IdleCb
    /\ AuxInit

CheckHandle ==
    /\ vHandleOK = "pending"
    /\ vHandleOK' = IF isValidGitHubHandle(vHandle) THEN "valid" ELSE "invalid"
    /\ UNCHANGED <<now, clientID, clientSecret, authCodes, authCodesMutex,
                   requests, mu, failedAttempts, nextID, lastSweep, ex,
                   lastResp, tokensOut, issuedAt, allowedLog, vURL, vResult,
                   vHandle, jar, cb, auxVars>>

NextHandle == CheckHandle

SpecHandle == InitHandle /\ [][NextHandle]_vars

\* The login endpoint alone: login requests received on the base domain
\* and on other hosts, with the client id set or not.
LoginHosts ==
    { baseDomain,
      <<"R","e","v","i","e","w","G","O","O","S","E",".","d","e","v">>,
      MyHost, OrgHost, EvilHost, LocalHost,
      OrgHost \o <<":","8","0","8","0">> }

LoginRequests ==
    { [ip |-> "10.0.0.1", host |-> h, secure |-> sec, returnTo |-> rt] :
        h \in LoginHosts, sec \in BOOLEAN,
        rt \in { <<>>, QueryEscape(UrlString("https", OrgHost)),
                 QueryEscape(UrlString("http", EvilHost)) } }

InitLogin ==
    /\ now = 0
    /\ clientSecret = TRUE
    /\ authCodes = EmptyMap
    /\ authCodesMutex = 0
    /\ requests = EmptyMap
    /\ mu = 0
    /\ failedAttempts = EmptyMap
    /\ nextID = 0
    /\ lastSweep = 0
    /\ ex = [r \in Reqs |-> IdleReq]
    /\ lastResp = NoResp
    /\ tokensOut = [c \in 1..(MaxCodes + 1) |-> 0]
    /\ issuedAt = [c \in 1..(MaxCodes + 1) |-> -1]
    /\ allowedLog = [ip \in IPs |-> <<>>]
    /\ vURL = EmptyURL
    /\ vResult = EmptyURL
    /\ clientID \in BOOLEAN
    /\ vHandle = <<>>
    /\ vHandleOK = "pending"
    /\ jar = EmptyJar
    /\ cb = IdleCb
    /\ AuxInit

Login == \E q \in LoginRequests : handleOAuthLogin(q)

NextLogin == Login

SpecLogin == InitLogin /\ [][NextLogin]_vars

\* Callbacks and the cancellation of their context, attempt by attempt.
RetryCallbacks ==
    { GoodCallback("10.0.0.1", TokenA, Alice, EmptyURL),
      GoodCallback("10.0.0.1", TokenShort, Alice, EmptyURL),
      GoodCallback("10.0.0.1", TokenA, BadLogin, EmptyURL) }
    \cup
    { [GoodCallback("10.0.0.1", TokenA, Alice, EmptyURL)
         EXCEPT !.tokTransient = k, !.tokFinal = f] :
        k \in {1, retryAttempts - 1, retryAttempts}, f \in {"ok", "4xx"} }
    \cup
    { [GoodCallback("10.0.0.1", TokenA, Alice, EmptyURL)
         EXCEPT !.userTransient = k, !.userFinal = f] :
        k \in {0, 1, retryAttempts - 1, retryAttempts}, f \in {"ok", "4xx"} }

InitRetry ==
    /\ InitCallback
    /\ clientSecret

RetryStart == \E q \in RetryCallbacks : CbStart(q)
RetryClock == Tick(CallbackInstants)

NextRetry ==
    \/ RetryStart
    \/ TokenAttempt
    \/ TokenAbort
    \/ UserAttempt
    \/ UserAbort
    \/ CbIssue
    \/ CbCancel
    \/ RetryClock

SpecRetry == InitRetry /\ [][NextRetry]_vars

\* A browser that logs in on the base domain and follows the provider's
\* redirects to the callback.
FlowLogins ==
    { [ip |-> "10.0.0.1", host |-> baseDomain, secure |-> TRUE,
       returnTo |-> rt] :
        rt \in { <<>>, QueryEscape(UrlString("https", OrgHost)) } }

FlowCallbacks ==
    { [GoodCallback("10.0.0.1", TokenA, Alice, EmptyURL)
         EXCEPT !.state = st, !.codeLen = n] :
        st \in StateTokens \cup {""}, n \in {0, 20} }
    \cup
    { [GoodCallback("10.0.0.1", TokenA, Alice, EmptyURL)
         EXCEPT !.state = st, !.tokFinal = "4xx"] : st \in StateTokens }
    \cup
    { [GoodCallback("10.0.0.1", TokenA, Alice, EmptyURL)
         EXCEPT !.state = st, !.userFinal = "4xx"] : st \in StateTokens }
    \cup
    { [GoodCallback("10.0.0.1", TokenA, BadLogin, EmptyURL)
         EXCEPT !.state = st] : st \in StateTokens }

InitFlow ==
    /\ InitCallback
    /\ clientSecret

FlowLogin == \E q \in FlowLogins : handleOAuthLogin(q)
FlowCallback == \E q \in FlowCallbacks : BrowserCallback(q)
FlowClock == Tick(CallbackInstants)

NextFlow ==
    \/ FlowLogin
    \/ FlowCallback
    \/ FlowClock

SpecFlow == InitFlow /\ [][NextFlow]_vars

\* The redirect alone: a return-to cookie and a code generateID(32) has
\* produced (base64url with padding).
RedirectCodes ==
    { <<"a","B","-","_","9","=">>, <<"c","1","=","=">>, <<"z","z">> }
RedirectRests ==
    { <<>>, <<"/">>, <<"/","?","c","=","1">>, <<"/","#","x">>,
      <<"/","#","a","u","t","h","_","c","o","d","e","=","z","z","z">> }
RedirectCookies ==
    { [parts |-> FALSE, scheme |-> "", host |-> <<>>, rest |-> <<>>] }
    \cup
    { [parts |-> TRUE, scheme |-> sch, host |-> h, rest |-> r] :
        sch \in {"http", "https"}, h \in {MyHost, OrgHost, EvilHost},
        r \in RedirectRests }

InitRedirect ==
    /\ now = 0
    /\ clientID = TRUE
    /\ clientSecret = TRUE
    /\ authCodes = EmptyMap
    /\ authCodesMutex = 0
    /\ requests = EmptyMap
    /\ mu = 0
    /\ failedAttempts = EmptyMap
    /\ nextID = 0
    /\ lastSweep = 0
    /\ ex = [r \in Reqs |-> IdleReq]
    /\ lastResp = NoResp
    /\ tokensOut = [c \in 1..(MaxCodes + 1) |-> 0]
    /\ issuedAt = [c \in 1..(MaxCodes + 1) |-> -1]
    /\ allowedLog = [ip \in IPs |-> <<>>]
    /\ vURL = EmptyURL
    /\ vResult = EmptyURL
    /\ vHandle = <<>>
    /\ vHandleOK = "pending"
    /\ jar = EmptyJar
    /\ cb = IdleCb
    /\ crashed = FALSE
    /\ ws = NoPage
    /\ watch = NoWatch
    /\ \E code \in RedirectCodes : redir = [NoRedir EXCEPT !.code = code]

Redirect == \E c \in RedirectCookies, secure \in BOOLEAN : BuildRedirect(c, secure)

NextRedirect == Redirect

SpecRedirect == InitRedirect /\ [][NextRedirect]_vars

\* The login flow of a browser with a random source that can fail.
ServeLogin == ~crashed /\ FlowLogin
ServeCallback == ~crashed /\ FlowCallback
RandFail == \E caller \in {"requestID", "login", "callback"} : generateIDFails(caller)

NextCrash ==
    \/ ServeLogin
    \/ ServeCallback
    \/ RandFail

SpecCrash == InitFlow /\ [][NextCrash]_vars

\* ------------------------------------------------------------ workspace.js
\* The page: window.location.hostname and the browser's cookies. A cookie
\* is kept with the Domain it was set with; the username cookie is set by
\* auth.js, the hidden_orgs_<workspace> cookies by this module.
BASE_DOMAIN ==
    <<"r","e","a","d","y","-","t","o","-","r","e","v","i","e","w",".","d","e","v">>
authCookieDomain == baseDomain
PersonalName == <<"p","e","r","s","o","n","a","l">>
reservedWorkspaces ==
    { <<"w","w","w">>, <<"d","a","s","h">>, <<"a","p","i">>,
      <<"l","o","g","i","n">>,
      <<"a","u","t","h","-","c","a","l","l","b","a","c","k">> }
LoopbackHost == <<"1","2","7",".","0",".","0",".","1">>

\* currentWorkspace: the first label of a hostname of three or more labels,
\* unless it is reserved; <<>> is null.
currentWorkspace(host) ==
    IF \/ host = LocalHost \/ host = LoopbackHost
       \/ HasPrefix(host, LocalHost \o <<":">>)
       \/ HasPrefix(host, LoopbackHost \o <<":">>)
    THEN <<>>
    ELSE IF SplitCount(host) >= 3
    THEN IF SplitFirst(host) \in reservedWorkspaces THEN <<>>
         ELSE SplitFirst(host)
    ELSE <<>>

\* currentWorkspace() || "personal"
workspaceOrPersonal(host) ==
    IF currentWorkspace(host) = <<>> THEN PersonalName
    ELSE currentWorkspace(host)

\* The browser: a cookie with a Domain attribute is stored only when the
\* page's host is the domain or a subdomain of it, and document.cookie
\* shows the cookies whose domain the host matches.
domainMatch(host, dom) ==
    \/ EqualFold(host, dom)
    \/ /\ Len(host) > Len(dom) + 1
       /\ EqualFold(SubSeq(host, Len(host) - Len(dom), Len(host)),
                    <<".">> \o dom)
documentCookieSet(host, old, value, dom) ==
    IF domainMatch(host, dom) THEN [value |-> value, domain |-> dom] ELSE old
getCookie(host, c) ==
    IF c.value # NullCookie /\ domainMatch(host, c.domain) THEN c.value
    ELSE NullCookie

\* JSON.stringify of a list of strings and JSON.parse of a cookie value
\* (the strings hold no quote and no backslash); a value that is no array
\* makes JSON.parse throw, the caller then takes the list as empty.
Quote(str) == <<"\"">> \o str \o <<"\"">>
RECURSIVE JoinQuoted(_)
JoinQuoted(list) ==
    IF list = <<>> THEN <<>>
    ELSE IF Len(list) = 1 THEN Quote(list[1])
    ELSE Quote(list[1]) \o <<",">> \o JoinQuoted(Tail(list))
JSONStringify(list) == <<"[">> \o JoinQuoted(list) \o <<"]">>
JSONParse(str) ==
    LET quotes == { i \in 1..Len(str) : str[i] = "\"" }
        nth(j) == CHOOSE i \in quotes :
                      Cardinality({ x \in quotes : x < i }) = j - 1
    IN  IF /\ Len(str) >= 2 /\ str[1] = "[" /\ str[Len(str)] = "]"
           /\ Cardinality(quotes) % 2 = 0
        THEN [k \in 1..(Cardinality(quotes) \div 2) |->
                SubSeq(str, nth(2 * k - 1) + 1, nth(2 * k) - 1)]
        ELSE <<>>

\* hiddenOrgs and setHiddenOrgs of the page's workspace; setHiddenOrgs
\* gives the hidden_orgs cookies after the call.
hiddenOrgs(page) ==
    LET cookieValue ==
          getCookie(page.host,
                    MapGet(page.hidden, workspaceOrPersonal(page.host),
                           AbsentCookie))
    IN  IF cookieValue = NullCookie \/ cookieValue = <<>> THEN <<>>
        ELSE JSONParse(cookieValue)

setHiddenOrgs(page, orgs) ==
    LET name == workspaceOrPersonal(page.host)
        cookieValue == JSONStringify(orgs)
    IN  IF Len(cookieValue) > maxCookieSize THEN page.hidden
        ELSE IF documentCookieSet(page.host, AbsentCookie, cookieValue,
                                  BASE_DOMAIN) = AbsentCookie
        THEN page.hidden
        ELSE MapPut(page.hidden, name,
                    documentCookieSet(page.host, AbsentCookie, cookieValue,
                                      BASE_DOMAIN))

\* hidden.indexOf(org), from 1 (0: not found), and the list after the push
\* or the splice.
indexOf(list, org) ==
    IF \E i \in 1..Len(list) : list[i] = org
    THEN CHOOSE i \in 1..Len(list) :
             list[i] = org /\ \A j \in 1..(i - 1) : list[j] # org
    ELSE 0
toggled(list, org) ==
    IF indexOf(list, org) = 0 THEN Append(list, org)
    ELSE SubSeq(list, 1, indexOf(list, org) - 1)
           \o SubSeq(list, indexOf(list, org) + 1, Len(list))

wsFrame ==
    UNCHANGED <<now, clientID, clientSecret, authCodes, authCodesMutex,
                requests, mu, failedAttempts, nextID, lastSweep, ex,
                lastResp, tokensOut, issuedAt, allowedLog, vURL, vResult,
                vHandle, vHandleOK, jar, cb, redir, crashed, watch>>

toggleOrgVisibility(org) ==
    /\ ws' = [ws EXCEPT
                !.hidden = setHiddenOrgs(ws, toggled(hiddenOrgs(ws), org)),
                !.last = [op |-> "toggle", org |-> org,
                          ret |-> toggled(hiddenOrgs(ws), org)]]
    /\ wsFrame

\* initializeDefaults, called when the page loads.
initializeDefaults ==
    LET workspace == currentWorkspace(ws.host)
        username == getCookie(ws.host, ws.username)
        existingCookie ==
          getCookie(ws.host, MapGet(ws.hidden, workspace, AbsentCookie))
    IN  /\ ws' = [ws EXCEPT
                    !.hidden =
                       IF workspace = <<>> \/ username = NullCookie
                          \/ username = <<>>
                       THEN ws.hidden
                       ELSE IF existingCookie = NullCookie
                       THEN setHiddenOrgs(ws, <<username>>)
                       ELSE ws.hidden,
                    !.last = [NoCall EXCEPT !.op = "init"]]
        /\ wsFrame

\* The browser goes to a host of the application (switchWorkspace, a link,
\* a reload), and auth.js stores the username after a login.
navigate(host) ==
    /\ ws' = [ws EXCEPT !.host = host, !.last = [NoCall EXCEPT !.op = "navigate"]]
    /\ wsFrame
storeUsername(username) ==
    /\ ws' = [ws EXCEPT
                !.username = documentCookieSet(ws.host, ws.username, username,
                                               authCookieDomain),
                !.last = [NoCall EXCEPT !.op = "login"]]
    /\ wsFrame

\* The pages of the application under the server's base domain and under
\* the module's BASE_DOMAIN: the personal workspace, two org workspaces, a
\* reserved name, the org whose login is "personal" and the development
\* host; two accounts to toggle.
Org1 == <<"o","1">>
Org2 == <<"o","2">>
WorkspaceHosts ==
    { baseDomain, Org1 \o <<".">> \o baseDomain,
      <<"w","w","w",".">> \o baseDomain,
      BASE_DOMAIN, Org1 \o <<".">> \o BASE_DOMAIN,
      Org2 \o <<".">> \o BASE_DOMAIN,
      PersonalName \o <<".">> \o BASE_DOMAIN, LocalHost }
ToggledOrgs == {Alice, Org1}

InitWorkspace ==
    /\ now = 0
    /\ clientID = TRUE
    /\ clientSecret = TRUE
    /\ authCodes = EmptyMap
    /\ authCodesMutex = 0
    /\ requests = EmptyMap
    /\ mu = 0
    /\ failedAttempts = EmptyMap
    /\ nextID = 0
    /\ lastSweep = 0
    /\ ex = [r \in Reqs |-> IdleReq]
    /\ lastResp = NoResp
    /\ tokensOut = [c \in 1..(MaxCodes + 1) |-> 0]
    /\ issuedAt = [c \in 1..(MaxCodes + 1) |-> -1]
    /\ allowedLog = [ip \in IPs |-> <<>>]
    /\ vURL = EmptyURL
    /\ vResult = EmptyURL
    /\ vHandle = <<>>
    /\ vHandleOK = "pending"
    /\ jar = EmptyJar
    /\ cb = IdleCb
    /\ redir = NoRedir
    /\ crashed = FALSE
    /\ watch = NoWatch
    /\ ws = [NoPage EXCEPT !.host = baseDomain]

Toggle == \E org \in ToggledOrgs : toggleOrgVisibility(org)
PageLoad == initializeDefaults
Navigate == \E host \in WorkspaceHosts : navigate(host)
StoreUsername == storeUsername(Alice)

NextWorkspace ==
    \/ Toggle
    \/ PageLoad
    \/ Navigate
    \/ StoreUsername

SpecWorkspace == InitWorkspace /\ [][NextWorkspace]_vars

\* The failed-attempt tracker under callbacks of one client: failures that
\* are recorded (missing state, wrong state, a token exchange refused by
\* the provider), callbacks that record nothing (a provider error, a
\* success), and time up to the tracker's window. One earlier callback is
\* kept, with the state it met, for comparison with the later ones.
TrackerCallbacks ==
    { [GoodCallback("10.0.0.1", TokenA, Alice, EmptyURL) EXCEPT !.state = s] :
        s \in {"", "A", "B"} }
    \cup
    { [GoodCallback("10.0.0.1", TokenA, Alice, EmptyURL)
         EXCEPT !.tokFinal = "4xx", !.codeLen = 21],
      [GoodCallback("10.0.0.1", TokenA, Alice, EmptyURL)
         EXCEPT !.errParam = TRUE] }

TrackedCallback ==
    \E q \in TrackerCallbacks, keep \in BOOLEAN :
        /\ handleOAuthCallbackServer(q)
        /\ UNCHANGED jar
        /\ keep => ~watch.seen
        /\ watch' =
             IF keep
             THEN [watch EXCEPT
                     !.seen = TRUE, !.authCodes = authCodes,
                     !.nextID = nextID, !.now = now,
                     !.hist = After(MapGet(failedAttempts, clientIP(q), <<>>),
                                    now - failedLoginWindow),
                     !.resp = lastResp', !.after = authCodes']
             ELSE watch
TrackerClock == Tick(CallbackInstants)

NextTracker ==
    \/ TrackedCallback
    \/ TrackerClock

SpecTracker == Init /\ [][NextTracker]_vars

\* The four OAuth routes under bursts of one client, as main registers
\* them: the exchange route behind the guard and the limiter, the login,
\* callback and user routes as the bare handlers. The observer keeps, per
\* bare route, the times of the requests served within the last minute
\* (allowedLog keeps them for the exchange route). The client keeps to
\* one route (the routes share nothing).
RouteClient == "10.0.0.1"
Served(e) == After(watch.served[e], now - rateLimitWindow)
OnlyRoute(e) ==
    /\ \A o \in DOMAIN watch.served \ {e} : watch.served[o] = <<>>
    /\ e # "exchange" =>
         allowedLog[RouteClient] = <<>> /\ Pending(RouteClient) = 0
Serve(e) ==
    /\ OnlyRoute(e)
    /\ Len(Served(e)) < MaxBurst
    /\ watch' = [watch EXCEPT !.served[e] =
                   IF lastResp'.status = 429 THEN Served(e)
                   ELSE Append(Served(e), now)]

RouteLogin ==
    /\ handleOAuthLoginRoute([ip |-> RouteClient, host |-> baseDomain,
                              secure |-> TRUE, returnTo |-> <<>>])
    /\ Serve("login")
RouteCallback ==
    /\ handleOAuthCallbackServer(
          [GoodCallback(RouteClient, TokenA, Alice, EmptyURL)
             EXCEPT !.errParam = TRUE])
    /\ UNCHANGED jar
    /\ Serve("callback")
RouteUser ==
    /\ handleGetUserRoute([ip |-> RouteClient, auth |-> "Bearer",
                           userTransient |-> 0, userFinal |-> "ok",
                           login |-> Alice])
    /\ Serve("user")
RouteExchange ==
    \E r \in Reqs :
        LET q == ExReq(RouteClient, "POST", "malformed", 0,
                       SameOriginHeaders.site, SameOriginHeaders.origin, MyHost)
        IN /\ OnlyRoute("exchange")
           /\ Pending(q.ip) + Len(allowedLog[q.ip]) < Burst(q.ip)
           /\ ExArrive(r, q)
RouteInstants == {0, rateLimitWindow}
RouteClock == Tick(RouteInstants)

NextRoutes ==
    \/ RouteLogin
    \/ RouteCallback
    \/ RouteUser
    \/ RouteExchange
    \/ Limit
    \/ RouteClock

SpecRoutes == Init /\ [][NextRoutes]_vars

\* The exchange route under every method: bursts of one client with GET,
\* DELETE and POST requests, from the application's own page and from a
\* foreign page, one code in the store, and time in half windows (the
\* code's lifetime ends within the first).
MethodRequests ==
    { ExReq("10.0.0.1", m, "code", 1, SameOriginHeaders.site,
            SameOriginHeaders.origin, MyHost) : m \in {"GET", "DELETE", "POST"} }
    \cup
    { ExReq("10.0.0.1", "POST", b, 0, SameOriginHeaders.site,
            SameOriginHeaders.origin, MyHost) : b \in {"malformed", "missing"} }
    \cup
    { ExReq("10.0.0.1", "DELETE", "code", 1, CrossSiteHeaders.site,
            CrossSiteHeaders.origin, MyHost) }

MethodArrive ==
    \E r \in Reqs :
        \E q \in MethodRequests :
            /\ Pending(q.ip) + Len(allowedLog[q.ip]) < Burst(q.ip)
            /\ ExArrive(r, q)
MethodClock == Tick(LimiterInstants)

NextExchange ==
    \/ MethodArrive
    \/ Limit
    \/ Lock
    \/ Consume
    \/ MethodClock

SpecExchange == InitLimiter /\ [][NextExchange]_vars

\* The two timestamp maps under requests of many addresses. An address is
\* a number; a new address is the least one without a map entry, and the
\* first address is the one that may come back after its window has
\* passed. One map is exercised at a time (they share nothing but the
\* clock).
ManyIPs == 1..MaxIPs
NewIP(m) == CHOOSE ip \in ManyIPs \ DOMAIN m : \A o \in ManyIPs \ DOMAIN m : ip <= o
Returning(m) == { ip \in DOMAIN m \cap {1} : m[ip][Len(m[ip])] < now }
Senders(m) ==
    Returning(m) \cup (IF ManyIPs \subseteq DOMAIN m THEN {} ELSE {NewIP(m)})

cleanupFrame ==
    UNCHANGED <<now, clientID, clientSecret, authCodes, authCodesMutex, mu,
                nextID, lastSweep, ex, tokensOut, issuedAt, allowedLog,
                vURL, vResult, vHandle, vHandleOK, jar, cb, auxVars>>

\* limitHandler for a request of ip, up to next(w, r).
LimiterAccess ==
    /\ failedAttempts = EmptyMap
    /\ \E ip \in Senders(requests) : requests' = limitRequestsAfter(ip)
    /\ lastResp' = NoResp
    /\ UNCHANGED failedAttempts
    /\ cleanupFrame

\* trackFailedAttempt for a failed callback of ip.
TrackerAccess ==
    /\ requests = EmptyMap
    /\ \E ip \in Senders(failedAttempts) :
          failedAttempts' = trackFailedAttempt(failedAttempts, ip)
    /\ lastResp' = NoResp
    /\ UNCHANGED requests
    /\ cleanupFrame

CleanupInstants == {0, failedLoginWindow + rateLimitWindow}
CleanupClock == Tick(CleanupInstants)

NextCleanup ==
    \/ LimiterAccess
    \/ TrackerAccess
    \/ CleanupClock

SpecCleanup == InitLimiter /\ [][NextCleanup]_vars

\* Time passes whatever the clients do; no client is bound to send.
SpecCleanupLive == SpecCleanup /\ WF_vars(CleanupClock)

\* ------------------------------------------------------------------ claims
IsExchange(resp) == resp.endpoint = "exchange"
GenericMsg == "Invalid or expired auth code"

\* C1: for every auth code at most one exchange request receives the token;
\* the lookup, the checks and the deletion are one critical section under
\* authCodesMutex (what a request has read under the lock is still what
\* the store holds when it decides), and a request that reaches the code
\* store for a code that was already exchanged gets 401 and no token.
C1_AtMostOneToken ==
    /\ \A c \in DOMAIN tokensOut : tokensOut[c] <= 1
    /\ \A r \in Reqs :
          ex[r].pc = "locked" =>
            /\ authCodesMutex = r
            /\ ex[r].exists = (ex[r].code \in DOMAIN authCodes)
            /\ ex[r].data = MapGet(authCodes, ex[r].code, NoData)
    /\ (/\ IsExchange(lastResp)
        /\ lastResp.stage = "consume"
        /\ lastResp.token = NoToken)
       => lastResp.status = 401
    /\ (IsExchange(lastResp) /\ lastResp.status = 200)
       => /\ lastResp.stage = "consume"
          /\ tokensOut[lastResp.code] = 1
          /\ lastResp.code \notin DOMAIN authCodes

\* A second request for an exchanged code was answered 401.
C1_Witness ==
    /\ IsExchange(lastResp)
    /\ lastResp.stage = "consume"
    /\ lastResp.status = 401
    /\ lastResp.code \in DOMAIN tokensOut
    /\ tokensOut[lastResp.code] = 1

\* C2: no exchange response written after issue time + 10 s of the code
\* it is asked for carries a token, whether the entry is still stored or
\* was swept and whether or not an exchange was tried before; a request
\* that reaches the code store then gets 401.
C2_ExpiredNeverExchanged ==
    (/\ IsExchange(lastResp)
     /\ lastResp.code \in DOMAIN issuedAt
     /\ issuedAt[lastResp.code] >= 0
     /\ now > issuedAt[lastResp.code] + authCodeTTL)
    => /\ lastResp.token = NoToken
       /\ lastResp.status # 200
       /\ lastResp.stage = "consume" => lastResp.status = 401

\* An expired code that was never exchanged and is still stored was refused.
C2_Witness ==
    /\ IsExchange(lastResp)
    /\ lastResp.stage = "consume"
    /\ lastResp.status = 401
    /\ lastResp.code \in DOMAIN authCodes
    /\ tokensOut[lastResp.code] = 0
    /\ now > issuedAt[lastResp.code] + authCodeTTL

\* C3: a 200 exchange response for code c carries the token and the
\* username the callback stored when it issued c (the callback stores what
\* the provider returned, a stored entry never changes, and the response
\* copies the entry), and no response of another endpoint or with another
\* status carries a token.
C3_Step ==
    /\ (lastResp'.endpoint = "callback" /\ lastResp'.issued # 0)
       => /\ lastResp'.issued \notin DOMAIN authCodes
          /\ lastResp'.issued \in DOMAIN authCodes'
          /\ authCodes'[lastResp'.issued].token = lastResp'.provToken
          /\ authCodes'[lastResp'.issued].username = lastResp'.provLogin
    /\ \A c \in DOMAIN authCodes \cap DOMAIN authCodes' :
          authCodes'[c] = authCodes[c]
    /\ (IsExchange(lastResp') /\ lastResp'.status = 200)
       => /\ lastResp'.code \in DOMAIN authCodes
          /\ lastResp'.token = authCodes[lastResp'.code].token
          /\ lastResp'.username = authCodes[lastResp'.code].username
    /\ lastResp'.token # NoToken
       => IsExchange(lastResp') /\ lastResp'.status = 200

C3_TokenAsStored == [][C3_Step]_vars

\* A code issued for the second user was exchanged for the token and the
\* user stored with it.
C3_Witness ==
    /\ IsExchange(lastResp)
    /\ lastResp.status = 200
    /\ lastResp.token = TokenB
    /\ lastResp.username = Bob
    /\ tokensOut[lastResp.code] = 1

\* C9: every failed exchange attempt (malformed body, missing auth_code,
\* unknown, used or expired code) gets status 401 with the one generic
\* message.
C9_UniformFailure ==
    (/\ IsExchange(lastResp)
     /\ lastResp.stage \in {"handler", "consume"}
     /\ lastResp.method = "POST"
     /\ lastResp.status # 200)
    => /\ lastResp.status = 401
       /\ lastResp.msg = GenericMsg

\* C9, for the codes the store refuses: the same status and message
\* whether the code is unknown or expired.
C9_UniformRefusal ==
    (/\ IsExchange(lastResp)
     /\ lastResp.stage = "consume"
     /\ lastResp.status # 200)
    => /\ lastResp.status = 401
       /\ lastResp.msg = GenericMsg

IsCallback(resp) == resp.endpoint = "callback"
\* The callback gets as far as the state validation: OAuth is configured,
\* the provider reported no error, and it is no installation callback.
reachesStateCheck(resp) == resp.configured /\ ~resp.errParam /\ ~resp.install
\* The oauth_state cookie is there and the state parameter is not its value.
stateDiffers(resp) == resp.cookie # "none" /\ resp.state # resp.cookie
stateFailure(resp) ==
    resp.state = "" \/ resp.cookie = "none" \/ resp.cookie # resp.state

\* C4 as stated: a callback whose state parameter differs from the value
\* of the oauth_state cookie always responds 400, calls neither provider
\* endpoint and issues no auth code.
C4_MismatchAlways400 ==
    (IsCallback(lastResp) /\ stateDiffers(lastResp))
    => /\ lastResp.status = 400
       /\ lastResp.tokenCalls = 0
       /\ lastResp.userCalls = 0
       /\ lastResp.issued = 0

\* C4 amended: a callback whose state parameter differs from the value of
\* the oauth_state cookie never calls the provider (token or user
\* endpoint) and never issues an auth code, and it responds 400 whenever
\* it reaches the state validation (OAuth configured, no error parameter,
\* no installation callback).
C4_Step ==
    (IsCallback(lastResp') /\ stateDiffers(lastResp'))
    => /\ lastResp'.tokenCalls = 0
       /\ lastResp'.userCalls = 0
       /\ lastResp'.issued = 0
       /\ authCodes' = authCodes
       /\ nextID' = nextID
       /\ reachesStateCheck(lastResp') => lastResp'.status = 400
C4_MismatchRefused == [][C4_Step]_vars

C4_Witness ==
    /\ IsCallback(lastResp)
    /\ reachesStateCheck(lastResp)
    /\ lastResp.state = "B"
    /\ lastResp.cookie = "A"
    /\ lastResp.status = 400
    /\ lastResp.codeLen > 0

\* C5: on every state-validation failure of the callback (state parameter
\* missing, oauth_state cookie missing, or the two unequal) the handler
\* records one failed attempt for the client ip (and for no other ip),
\* clears the oauth_state cookie, responds 400 and attempts no token
\* exchange.
C5_Step ==
    (/\ IsCallback(lastResp')
     /\ reachesStateCheck(lastResp')
     /\ stateFailure(lastResp'))
    => /\ lastResp'.status = 400
       /\ lastResp'.clearedState
       /\ lastResp'.tokenCalls = 0
       /\ lastResp'.userCalls = 0
       /\ authCodes' = authCodes
       /\ LET cutoff == now - failedLoginWindow
              ip == lastResp'.ip
          IN  /\ ip \in DOMAIN failedAttempts'
              /\ failedAttempts'[ip] =
                    Append(After(MapGet(failedAttempts, ip, <<>>), cutoff), now)
              /\ \A other \in IPs \ {ip} :
                    After(MapGet(failedAttempts', other, <<>>), cutoff)
                    = After(MapGet(failedAttempts, other, <<>>), cutoff)
C5_StateFailure == [][C5_Step]_vars

C5_Witness ==
    /\ IsCallback(lastResp)
    /\ reachesStateCheck(lastResp)
    /\ lastResp.state = "A"
    /\ lastResp.cookie = "none"
    /\ lastResp.status = 400
    /\ Len(failedAttempts[lastResp.ip]) = 2
    /\ "10.0.0.2" \in DOMAIN failedAttempts

\* A request of a foreign page, as the browser marks it.
IsForeign(x) == x.secFetchSite = "cross-site" /\ x.origin.host = EvilHost

\* C6: an exchange request passes the cross-origin guard, then the rate
\* limiter, then the code consumption.  A request that the guard rejects
\* is answered 403 at the guard, adds no timestamp to the limiter and
\* leaves the code store alone, and never gets further; a request that
\* the limiter rejects (429) leaves the code store, the tokens handed out
\* and the store's lock alone; a request at the code store holds the
\* limiter's lock with its timestamp recorded; and a code is consumed
\* only by such a request.
C6_Step ==
    /\ \A r \in Reqs : ex'[r].pc # "idle" => ~IsForeign(ex'[r])
    /\ (IsExchange(lastResp') /\ IsForeign(lastResp'))
       => /\ lastResp'.stage = "guard"
          /\ lastResp'.status = 403
          /\ UNCHANGED <<requests, authCodes, tokensOut, allowedLog, ex, mu,
                         authCodesMutex>>
    /\ (IsExchange(lastResp') /\ lastResp'.status = 429)
       => /\ lastResp'.stage = "limiter"
          /\ UNCHANGED <<authCodes, tokensOut, authCodesMutex>>
    /\ \A r \in Reqs :
          ex'[r].pc \in {"lock", "locked"}
          => /\ mu' = r
             /\ ex'[r].ip \in DOMAIN requests'
             /\ Len(requests'[ex'[r].ip]) > 0
    /\ (IsExchange(lastResp') /\ lastResp'.stage = "consume")
       => \E r \in Reqs :
            ex[r].pc = "locked" /\ mu = r /\ ex'[r] = IdleReq
    /\ (authCodes' # authCodes \/ tokensOut' # tokensOut)
       => IsExchange(lastResp') /\ lastResp'.stage = "consume"
C6_GuardLimiterConsume == [][C6_Step]_vars

C6_Witness ==
    /\ IsExchange(lastResp)
    /\ lastResp.status = 429
    /\ lastResp.body = "code"
    /\ lastResp.code \in DOMAIN authCodes
    /\ tokensOut[lastResp.code] = 0

\* C8: with limit 10 and window one minute, for each client ip: a request
\* that reaches the limiter when 10 requests of its ip were allowed within
\* the last minute is answered 429 and does not reach the exchange
\* handler; a request that reaches it when fewer than 10 were is allowed
\* and counted; so never more than 10 are allowed within one minute.
C8_Step ==
    /\ \A ip \in IPs : Len(allowedLog'[ip]) <= rateLimitRequests
    /\ \A r \in Reqs :
          (ex[r].pc = "limit" /\ ex'[r].pc # "limit")
          => IF Len(allowedLog[ex[r].ip]) >= rateLimitRequests
             THEN /\ lastResp'.status = 429
                  /\ lastResp'.stage = "limiter"
                  /\ lastResp'.ip = ex[r].ip
                  /\ ex'[r] = IdleReq
                  /\ UNCHANGED <<allowedLog, authCodes, tokensOut>>
             ELSE /\ lastResp'.status # 429
                  /\ lastResp'.stage # "limiter"
                  /\ allowedLog'[ex[r].ip] = Append(allowedLog[ex[r].ip], now)
C8_TenPerMinute == [][C8_Step]_vars

C8_Witness ==
    /\ IsExchange(lastResp)
    /\ lastResp.status = 429
    /\ lastResp.ip = "10.0.0.1"
    /\ now = rateLimitWindow
    /\ Len(allowedLog["10.0.0.1"]) = rateLimitRequests
    /\ allowedLog["10.0.0.1"][1] < now
    /\ allowedLog["10.0.0.1"][rateLimitRequests] = now
    /\ Len(allowedLog["10.0.0.2"]) = 1

\* The origins C7 names: the request's own origin, https://<base domain>
\* and https://<any subdomain>.<base domain>.
IsSameOrigin(x) == x.secFetchSite = "same-origin" \/ x.origin.host = x.host
IsOurOrigin(x) ==
    /\ x.origin.scheme = "https"
    /\ \/ x.origin.host = baseDomain
       \/ HasSuffix(x.origin.host, <<".">> \o baseDomain)

\* C7: the guard around /oauth/exchange lets a POST through that comes
\* from the same origin, from https://<base domain> or from
\* https://<any subdomain>.<base domain>, and rejects a POST that carries
\* any other origin before the limiter and the handler run.
C7_GuardByOrigin ==
    /\ (/\ IsExchange(lastResp)
        /\ lastResp.stage = "guard")
       => ~(IsSameOrigin(lastResp) \/ IsOurOrigin(lastResp))
    /\ \A r \in Reqs :
          (/\ ex[r].pc # "idle"
           /\ ex[r].method = "POST"
           /\ ex[r].origin # NoOrigin)
          => (IsSameOrigin(ex[r]) \/ IsOurOrigin(ex[r]))

\* C10: for every return-to URL whose host is neither the base domain nor
\* a name that ends in "." followed by the base domain,
\* validateReturnToURL returns the empty string.
C10_ForeignHostRejected ==
    (/\ vResult # NotValidated
     /\ vURL.host # baseDomain
     /\ ~HasSuffix(vURL.host, <<".">> \o baseDomain))
    => vResult = EmptyURL

C10_Witness ==
    /\ vResult = EmptyURL
    /\ clientID = TRUE
    /\ vHandle = <<>>
    /\ vHandleOK = "pending"
    /\ jar = EmptyJar
    /\ cb = IdleCb
    /\ vURL.parses
    /\ vURL.scheme = "https"
    /\ vURL.host = <<"k","8","s",".","e","v","i","l">> \o baseDomain

\* GitHub-handle syntax as the specification words it: 1 to 39 characters,
\* ASCII letters, digits and hyphens only, no hyphen first or last, no two
\* hyphens in a row.
HandleSyntax(s) ==
    /\ Len(s) >= 1
    /\ Len(s) <= maxHandleLen
    /\ \A i \in 1..Len(s) :
          s[i] \in Range(LowerChars) \cup Range(UpperChars)
                   \cup Range(DigitChars) \cup {"-"}
    /\ s[1] # "-"
    /\ s[Len(s)] # "-"
    /\ ~\E i \in 1..(Len(s) - 1) : s[i] = "-" /\ s[i + 1] = "-"

\* The labels of host below the base domain, outermost last.
SubdomainLabels(host) ==
    IF HasSuffix(host, <<".">> \o baseDomain)
    THEN Range(SplitDots(SubSeq(host, 1, Len(host) - Len(baseDomain) - 1)))
    ELSE {}

\* C11: for every return-to URL whose host has a subdomain label, at
\* whatever depth below the base domain, that is not in the reserved list
\* and fails GitHub-handle syntax, validateReturnToURL returns the empty
\* string.
C11_BadLabelRejected ==
    (/\ vResult # NotValidated
     /\ \E label \in SubdomainLabels(vURL.host) :
           ~isReserved(label) /\ ~HandleSyntax(label))
    => vResult = EmptyURL

\* C12: validateReturnToURL returns the empty string or its input
\* unchanged, returns the empty string for the empty input and for every
\* scheme other than http and https, and validating its result again
\* gives that result.
C12_EmptyOrUnchanged ==
    vResult # NotValidated
    => /\ vResult \in {EmptyURL, vURL}
       /\ vURL = EmptyURL => vResult = EmptyURL
       /\ vURL.scheme \notin {"http", "https"} => vResult = EmptyURL
       /\ validateReturnToURL(vResult) = vResult

C12_Witness ==
    /\ vResult = vURL
    /\ vURL.scheme = "http"
    /\ vURL.host = OrgHost

\* C13: isValidGitHubHandle(s) is true exactly when s has 1 to 39
\* characters, every character is an ASCII letter, digit or hyphen, s
\* neither starts nor ends with a hyphen, and s has no two hyphens in a
\* row.
C13_HandleExactly ==
    vHandleOK # "pending" => ((vHandleOK = "valid") = HandleSyntax(vHandle))

C13_Witness ==
    /\ vHandleOK = "invalid"
    /\ vHandle = <<"a", "-", "-", "b">>

IsLogin(resp) == resp.endpoint = "login"
OffBase(resp) == ~EqualFold(resp.host, baseDomain)
MintsOrSetsCookie(resp) ==
    resp.mintedState # "" \/ resp.setStateCookie # ""
    \/ resp.setReturnCookie # <<>>
\* The Location is <scheme>://<base domain>/oauth/login?return_to=<value>
\* where value is free of URL delimiters and decodes to <scheme>://<host>/.
RedirectsToBase(resp) ==
    /\ resp.status = 302
    /\ resp.locScheme = resp.scheme
    /\ resp.locHost = baseDomain
    /\ resp.locPath = "/oauth/login"
    /\ \A i \in 1..Len(resp.locQuery) :
          resp.locQuery[i] \notin {":", "/", "?", "#", "&", "=", " "}
    /\ QueryUnescape(resp.locQuery) = UrlString(resp.scheme, resp.host)

\* C14 as stated: a login request received on a host other than the base
\* domain is answered 302 to <scheme>://<base domain>/oauth/login with
\* return_to the escaped <scheme>://<host>/, mints no state and sets no
\* cookie; only a login request received on the base domain mints a state
\* or sets a cookie.
C14_OffBaseRedirects ==
    /\ (IsLogin(lastResp) /\ OffBase(lastResp))
       => (RedirectsToBase(lastResp) /\ ~MintsOrSetsCookie(lastResp))
    /\ (IsLogin(lastResp) /\ MintsOrSetsCookie(lastResp))
       => ~OffBase(lastResp)

\* C14 amended: a login request received on a host other than the base
\* domain mints no state, sets no cookie and leaves the browser's cookies
\* as they were; with the client id configured it is answered 302 to
\* <scheme>://<base domain>/oauth/login with return_to the escaped
\* <scheme>://<host>/, without it 503; only a login request received on
\* the base domain mints a state or sets a cookie.
C14_Step ==
    /\ (IsLogin(lastResp') /\ OffBase(lastResp'))
       => /\ ~MintsOrSetsCookie(lastResp')
          /\ jar' = jar
          /\ IF clientID THEN RedirectsToBase(lastResp')
             ELSE lastResp'.status = 503
    /\ (IsLogin(lastResp') /\ MintsOrSetsCookie(lastResp'))
       => ~OffBase(lastResp')
C14_OffBaseNoState == [][C14_Step]_vars

C14_Witness ==
    /\ IsLogin(lastResp)
    /\ lastResp.host = OrgHost
    /\ lastResp.status = 302
    /\ lastResp.locScheme = "https"
    /\ lastResp.locQuery =
         <<"h","t","t","p","s","%","3","A","%","2","F","%","2","F">>
         \o OrgHost \o <<"%","2","F">>
    /\ jar.state # "none"

\* The callback changed nothing: no provider call, no auth code, no failed
\* attempt, no cookie given a new value.
NoSetCookie(resp) == resp.setStateCookie = "" /\ resp.setReturnCookie = <<>>
TouchesNothing(resp) ==
    /\ resp.tokenCalls = 0
    /\ resp.userCalls = 0
    /\ resp.issued = 0
    /\ ~resp.tracked
    /\ NoSetCookie(resp)

\* C15 as stated: a callback with a non-empty error parameter responds 200
\* with the fixed failure page, makes no provider call, issues no auth
\* code, records no failed attempt and sets no cookie to a new value,
\* whatever its state, code and cookies.
C15_ErrorPageAlways ==
    (IsCallback(lastResp) /\ lastResp.errParam)
    => /\ lastResp.status = 200
       /\ lastResp.msg = "Authentication Failed"
       /\ TouchesNothing(lastResp)

\* C15 amended: a callback with a non-empty error parameter makes no
\* provider call, issues no auth code, records no failed attempt and sets
\* no cookie to a new value, whatever its state, code and cookies; with
\* OAuth configured it responds 200 with the fixed failure page, without
\* it 503.
C15_Step ==
    (IsCallback(lastResp') /\ lastResp'.errParam)
    => /\ TouchesNothing(lastResp')
       /\ authCodes' = authCodes
       /\ nextID' = nextID
       /\ failedAttempts' = failedAttempts
       /\ IF lastResp'.configured
          THEN lastResp'.status = 200 /\ lastResp'.msg = "Authentication Failed"
          ELSE lastResp'.status = 503
C15_ErrorPageTouchesNothing == [][C15_Step]_vars

C15_Witness ==
    /\ IsCallback(lastResp)
    /\ lastResp.errParam
    /\ lastResp.configured
    /\ lastResp.state = "B"
    /\ lastResp.cookie = "A"
    /\ lastResp.codeLen > 0
    /\ lastResp.status = 200
    /\ failedAttempts # EmptyMap

\* C16 as stated: a callback with installation_id and setup_action and no
\* error parameter returns the installation page, makes no provider call,
\* issues no auth code and changes no cookie, whether or not a state
\* parameter or cookie is present or matches.
C16_InstallPageAlways ==
    (IsCallback(lastResp) /\ lastResp.install /\ ~lastResp.errParam)
    => /\ lastResp.status = 200
       /\ lastResp.msg = "GitHub App Installed Successfully"
       /\ lastResp.tokenCalls = 0
       /\ lastResp.userCalls = 0
       /\ lastResp.issued = 0
       /\ NoSetCookie(lastResp)
       /\ ~lastResp.clearedState
       /\ ~lastResp.clearedReturnTo

\* C16 amended: a callback with installation_id and setup_action and no
\* error parameter makes no provider call, issues no auth code and changes
\* no cookie, whether or not a state parameter or cookie is present or
\* matches; with OAuth configured it returns the installation page,
\* without it 503.
C16_Step ==
    (IsCallback(lastResp') /\ lastResp'.install /\ ~lastResp'.errParam)
    => /\ lastResp'.tokenCalls = 0
       /\ lastResp'.userCalls = 0
       /\ lastResp'.issued = 0
       /\ authCodes' = authCodes
       /\ nextID' = nextID
       /\ NoSetCookie(lastResp')
       /\ ~lastResp'.clearedState
       /\ ~lastResp'.clearedReturnTo
       /\ IF lastResp'.configured
          THEN /\ lastResp'.status = 200
               /\ lastResp'.msg = "GitHub App Installed Successfully"
          ELSE lastResp'.status = 503
C16_InstallTouchesNoToken == [][C16_Step]_vars

C16_Witness ==
    /\ IsCallback(lastResp)
    /\ lastResp.install
    /\ ~lastResp.errParam
    /\ lastResp.configured
    /\ lastResp.state = "A"
    /\ lastResp.cookie = "A"
    /\ lastResp.codeLen > 0
    /\ lastResp.status = 200

\* The step sends one request to the token endpoint or the user endpoint.
IsAttempt ==
    cb'.tokenCalls + cb'.userCalls = cb.tokenCalls + cb.userCalls + 1
InOperation(c) == c.pc \in {"token", "user"}

\* C17: in the token exchange and in the user-info fetch an attempt that
\* gets a 4xx response ends the operation with an error, so that the
\* callback answers 500 and issues no code, and an operation makes a
\* further attempt only after an attempt that ended in a network error or
\* a 5xx response.
C17_Step ==
    /\ (IsAttempt /\ cb'.last = "4xx")
       => /\ cb'.pc = "done"
          /\ IsCallback(lastResp')
          /\ lastResp'.status = 500
          /\ lastResp'.issued = 0
          /\ authCodes' = authCodes
    /\ (IsAttempt /\ InOperation(cb) /\ cb.n >= 1)
       => cb.last = "transient"
C17_ClientErrorNotRetried == [][C17_Step]_vars

C17_Witness ==
    /\ cb.pc = "done"
    /\ cb.last = "4xx"
    /\ cb.n = 2
    /\ cb.tokenCalls = 2
    /\ lastResp.status = 500
    /\ ~cb.ctxDone

\* C18: the token exchange and the user-info fetch each make at most 10
\* attempts; a callback whose operation ends after an attempt that failed
\* with a network error or a 5xx response answers 500 and issues no auth
\* code, and unless its context was cancelled that attempt is the 10th.
C18_Step ==
    /\ cb'.n <= retryAttempts
    /\ cb'.tokenCalls <= retryAttempts
    /\ cb'.userCalls <= retryAttempts
    /\ (cb.pc # "done" /\ cb'.pc = "done" /\ cb'.last = "transient")
       => /\ IsCallback(lastResp')
          /\ lastResp'.status = 500
          /\ lastResp'.issued = 0
          /\ authCodes' = authCodes
          /\ nextID' = nextID
          /\ ~cb'.ctxDone => cb'.n = retryAttempts
C18_TenAttempts == [][C18_Step]_vars

C18_Witness ==
    /\ cb.pc = "done"
    /\ cb.last = "transient"
    /\ ~cb.ctxDone
    /\ cb.tokenCalls = 1
    /\ cb.userCalls = retryAttempts
    /\ lastResp.status = 500
    /\ lastResp.msg = "Failed to get user info"

\* C19 as stated: once the context of a callback is cancelled no further
\* attempt of either operation is started, the operation returns an error,
\* and the callback ends without issuing an auth code.
C19_CancelStep ==
    (cb.ctxDone /\ cb.pc \in {"token", "user", "issue"})
    => /\ ~IsAttempt
       /\ (InOperation(cb) /\ cb' # cb)
          => (cb'.pc = "done" /\ lastResp'.status = 500)
       /\ cb'.pc = "done"
          => (lastResp'.issued = 0 /\ authCodes' = authCodes)
C19_CancelledNeverIssues == [][C19_CancelStep]_vars

\* C19 amended: once the context of a callback is cancelled no further
\* attempt of either operation is started; when it is cancelled before
\* userInfo has returned, the operation under way (or the one about to
\* start) returns an error, the callback answers 500 and no auth code is
\* issued.
C19_Step ==
    (cb.ctxDone /\ cb.pc \in {"token", "user", "issue"})
    => /\ ~IsAttempt
       /\ (InOperation(cb) /\ cb' # cb)
          => /\ cb'.pc = "done"
             /\ IsCallback(lastResp')
             /\ lastResp'.cancelled
             /\ lastResp'.status = 500
             /\ lastResp'.issued = 0
             /\ authCodes' = authCodes
             /\ nextID' = nextID
C19_CancelStopsAttempts == [][C19_Step]_vars

C19_Witness ==
    /\ cb.pc = "done"
    /\ cb.ctxDone
    /\ cb.q.tokTransient = retryAttempts
    /\ cb.tokenCalls = 1
    /\ lastResp.cancelled
    /\ lastResp.status = 500

\* The response of a callback that passed the state validation.
PassedState(resp) ==
    /\ IsCallback(resp)
    /\ reachesStateCheck(resp)
    /\ ~stateFailure(resp)

\* C20: a state is single-use: a callback that passes the state validation
\* with state S clears the oauth_state cookie on whatever path it then
\* takes, so that the browser no longer holds S, and no callback passes
\* the validation with an S that has passed it before.
C20_Step ==
    PassedState(lastResp')
    => /\ lastResp'.clearedState
       /\ jar'.state = "none"
       /\ lastResp'.state \notin jar.used
C20_StateSingleUse == [][C20_Step]_vars

\* Where sub occurs in str.
Occurs(str, sub) ==
    { i \in 1..(Len(str) - Len(sub) + 1) :
        SubSeq(str, i, i + Len(sub) - 1) = sub }
SetMax(S) == CHOOSE x \in S : \A y \in S : y <= x
SetMin(S) == CHOOSE x \in S : \A y \in S : x <= y
\* Path and query of a URL: what stands before its first '#'.
BeforeFragment(str) ==
    IF Occurs(str, <<"#">>) = {} THEN str
    ELSE SubSeq(str, 1, SetMin(Occurs(str, <<"#">>)) - 1)

\* C21: the Location of the redirect that ends a successful callback is
\* the destination stored with the code, then '#auth_code=', then the
\* escaped code: the code stands only in the fragment, never in path or
\* query, and what precedes the '#auth_code=' that introduces the code is
\* exactly the stored destination.
C21_CodeOnlyInFragment ==
    redir.location # <<>>
    => /\ Occurs(redir.location, AuthCodeMarker) # {}
       /\ LET at == SetMax(Occurs(redir.location, AuthCodeMarker)) IN
          /\ SubSeq(redir.location, 1, at - 1) = redir.returnTo
          /\ QueryUnescape(SubSeq(redir.location, at + Len(AuthCodeMarker),
                                  Len(redir.location))) = redir.code
       /\ Occurs(BeforeFragment(redir.location), redir.code) = {}
       /\ Occurs(BeforeFragment(redir.location), QueryEscape(redir.code)) = {}

C21_Witness ==
    /\ redir.code = <<"a","B","-","_","9","=">>
    /\ redir.returnTo =
         <<"h","t","t","p","s",":","/","/">> \o OrgHost \o <<"/","?","c","=","1">>
    /\ redir.location =
         redir.returnTo \o AuthCodeMarker
         \o <<"a","B","-","_","9","%","3","D">>

\* C22: when the random source fails in generateID the process terminates:
\* the failing call yields no state, no cookie and no auth code, and once
\* the process has terminated nothing changes any more, so no request is
\* served.
C22_Step ==
    /\ lastResp'.aborted
       => /\ crashed'
          /\ lastResp'.status = 0
          /\ lastResp'.mintedState = ""
          /\ lastResp'.issued = 0
          /\ nextID' = nextID
          /\ authCodes' = authCodes
          /\ jar' = jar
    /\ crashed => UNCHANGED vars
IsSweep == lastSweep' # lastSweep

\* C23: a run of the sweep deletes from the code store exactly the
\* entries whose expiry has passed, consumed or not, and leaves the others
\* as they are; an entry that no exchange consumed is gone after the first
\* sweep that follows its expiry, so that after a sweep the store holds
\* unexpired entries only.
C23_Step ==
    IsSweep
    => /\ DOMAIN authCodes' =
            { c \in DOMAIN authCodes : ~(now > authCodes[c].expiry) }
       /\ \A c \in DOMAIN authCodes' :
            /\ authCodes'[c] = authCodes[c]
            /\ now <= authCodes'[c].expiry
C23_SweepDeletesExpired == [][C23_Step]_vars

C23_Witness ==
    /\ lastSweep = sweepInterval
    /\ issuedAt[1] = 0
    /\ tokensOut[1] = 0
    /\ 1 \notin DOMAIN authCodes
    /\ lastResp = NoResp

\* Every timestamp of ip's entry in m is older than the window.
AllOlder(m, ip, window) ==
    /\ ip \in DOMAIN m
    /\ \A i \in 1..Len(m[ip]) : m[ip][i] < now - window

\* C24 as stated: an ip's map entry all of whose timestamps are older than
\* the window is eventually dropped from the map, in the rate limiter and
\* in the failed-attempt tracker, also when no further request comes.
C24_StaleEventuallyDropped ==
    \A ip \in ManyIPs :
        /\ AllOlder(requests, ip, rateLimitWindow)
              ~> (ip \notin DOMAIN requests)
        /\ AllOlder(failedAttempts, ip, failedLoginWindow)
              ~> (ip \notin DOMAIN failedAttempts)

\* The entries of m written by the step to m2, and the rule of the scan:
\* entries leave the map only in a step that leaves it, before the scan,
\* with a multiple of cleanupModulus entries, and then exactly the entries
\* leave whose latest timestamp is older than the window.
Written(m, m2) ==
    { ip \in DOMAIN m2 : ip \notin DOMAIN m \/ m2[ip] # m[ip] }
ScanRule(m, m2, window) ==
    m2 # m
    => DOMAIN m \ DOMAIN m2 =
         IF Cardinality(DOMAIN m \cup DOMAIN m2) % cleanupModulus = 0
         THEN { ip \in DOMAIN m \ Written(m, m2) :
                  Len(m[ip]) = 0 \/ m[ip][Len(m[ip])] < now - window }
         ELSE {}

\* C24 amended: map entries of the rate limiter and of the failed-attempt
\* tracker are dropped only by the scan at the end of an allowed request
\* (of a recorded failure) that leaves the map with a multiple of 100
\* entries; that scan drops every entry whose latest timestamp is older
\* than the window and no other, and until such a step an entry stays
\* however old it is.
C24_Step ==
    /\ ScanRule(requests, requests', rateLimitWindow)
    /\ ScanRule(failedAttempts, failedAttempts', failedLoginWindow)
C24_ScanAtMultiples == [][C24_Step]_vars

C24_Witness ==
    /\ now > 0
    /\ cleanupModulus \in DOMAIN requests
    /\ 1 \notin DOMAIN requests
    /\ Cardinality(DOMAIN requests) < cleanupModulus

\* A request with another method than POST never goes on to the code
\* store, and no step of it changes the store or hands out a token.
NonPost(x) == x.method \notin {"", "POST"}
NonPostLeavesStore ==
    /\ \A r \in Reqs : NonPost(ex'[r]) => ex'[r].pc = "limit"
    /\ (\E r \in Reqs : NonPost(ex'[r]) /\ ex[r].pc = "idle")
         => authCodes' = authCodes
    /\ IsExchange(lastResp') /\ NonPost(lastResp')
         => /\ authCodes' = authCodes
            /\ tokensOut' = tokensOut
            /\ lastResp'.token = NoToken

\* C25 as stated: a request to /oauth/exchange with any method other than
\* POST is answered 405 and leaves the code store unchanged, even when it
\* carries a valid auth_code.
C25_Literal ==
    /\ NonPostLeavesStore
    /\ IsExchange(lastResp') /\ NonPost(lastResp') => lastResp'.status = 405
C25_NonPostAlways405 == [][C25_Literal]_vars

\* C25 amended: a request to /oauth/exchange with another method than POST
\* leaves the code store unchanged and gets no token; it is answered 403
\* when the cross-origin guard rejects it, 429 when the guard passes it
\* and the limiter does not allow it, and 405 "Method not allowed" when
\* both pass it.
C25_Step ==
    /\ NonPostLeavesStore
    /\ IsExchange(lastResp') /\ NonPost(lastResp')
         => /\ lastResp'.status =
                 IF ~crossOriginCheck(lastResp') THEN 403
                 ELSE IF ~limitAllows(lastResp'.ip) THEN 429
                 ELSE 405
            /\ lastResp'.status = 405 => lastResp'.msg = "Method not allowed"
C25_NonPostNeverConsumes == [][C25_Step]_vars

C25_Witness ==
    /\ IsExchange(lastResp)
    /\ lastResp.method = "GET"
    /\ lastResp.status = 405
    /\ lastResp.code \in DOMAIN authCodes
    /\ ~(now > authCodes[lastResp.code].expiry)

\* C26 as stated: no response of the exchange endpoint completes in less
\* than the floor of 50 ms, whatever the branch.
C26_NoFastResponse ==
    IsExchange(lastResp) => lastResp.elapsed >= minResponseTime

\* C26 amended: every response written by handleExchangeAuthCode (405,
\* 400 for a malformed body or a missing auth_code, 401 for an unknown,
\* used or expired code, 200) completes no sooner than 50 ms after the
\* handler was entered; the 403 of the cross-origin guard and the 429 of
\* the rate limiter are written before the handler is entered and are
\* not padded.
ByHandler(resp) == IsExchange(resp) /\ resp.stage \in {"handler", "consume"}
C26_HandlerResponsesPadded ==
    /\ ByHandler(lastResp) => lastResp.elapsed >= minResponseTime
    /\ IsExchange(lastResp) =>
          (ByHandler(lastResp) <=> lastResp.status \in {405, 400, 401, 200})
    /\ IsExchange(lastResp) /\ ~ByHandler(lastResp) =>
          lastResp.status \in {403, 429}

C26_Witness ==
    /\ IsExchange(lastResp)
    /\ lastResp.status = 401
    /\ lastResp.msg = "Auth code expired"
    /\ lastResp.elapsed = minResponseTime

\* Two callback responses answer the same request; they are the same but
\* for the security log line.
SameRequest(r1, r2) ==
    /\ r1.ip = r2.ip /\ r1.errParam = r2.errParam /\ r1.install = r2.install
    /\ r1.state = r2.state /\ r1.cookie = r2.cookie /\ r1.codeLen = r2.codeLen
    /\ r1.returnCookie = r2.returnCookie
    /\ r1.provToken = r2.provToken /\ r1.provLogin = r2.provLogin
SameButLog(r1, r2) == [r1 EXCEPT !.logged = FALSE] = [r2 EXCEPT !.logged = FALSE]
InWindow(fa, ip) == After(MapGet(fa, ip, <<>>), now - failedLoginWindow)

\* C27: the failed-attempt tracker never denies a request. A callback that
\* meets the same code store at the same time as an earlier callback with
\* the same request gets the same response (status, message, cookies
\* cleared, provider calls, Location, code issued) and leaves the same
\* code store and the browser's cookies alone, whatever failures are
\* recorded for its ip at either time; the record decides only the
\* security log line, written when a failure is recorded and more than 5
\* failures of the ip then lie within the 15-minute window.
C27_Step ==
    IsCallback(lastResp') =>
      /\ ( /\ watch.seen
           /\ SameRequest(lastResp', watch.resp)
           /\ authCodes = watch.authCodes /\ nextID = watch.nextID
           /\ now = watch.now )
         => /\ SameButLog(lastResp', watch.resp)
            /\ authCodes' = watch.after
      /\ jar' = jar
      /\ lastResp'.logged =
           ( /\ lastResp'.tracked
             /\ Len(failedAttempts'[lastResp'.ip]) > maxFailedLogins )
      /\ ~lastResp'.tracked => failedAttempts' = failedAttempts
C27_TrackerNeverDenies == [][C27_Step]_vars

\* A provider refusal answered 500 for an ip with five failures on record,
\* the sixth being logged, after the same request was answered with none
\* on record.
C27_Witness ==
    /\ IsCallback(lastResp)
    /\ lastResp.status = 500
    /\ lastResp.logged
    /\ watch.seen
    /\ watch.hist = <<>>
    /\ SameRequest(lastResp, watch.resp)
    /\ watch.now = now
    /\ Len(failedAttempts[lastResp.ip]) = maxFailedLogins + 1

\* C28: rate limiting of 10 requests per minute per IP applies to the
\* OAuth endpoints: on each of /oauth/login, /oauth/callback, /oauth/user
\* and /oauth/exchange no more than 10 requests of one IP are served
\* within a minute, the 11th is rejected.
C28_EleventhRejected ==
    /\ \A e \in {"login", "callback", "user"} :
          Len(Served(e)) <= rateLimitRequests
    /\ Len(After(allowedLog[RouteClient], now - rateLimitWindow))
         <= rateLimitRequests

NoDuplicates(list) ==
    \A i, j \in 1..Len(list) : i # j => list[i] # list[j]

\* C29: toggleOrgVisibility(org) flips the membership of org in the hidden
\* list of the current workspace and changes the membership of no other
\* org, and a duplicate-free list stays duplicate-free (so that org is
\* hidden exactly after an odd number of toggles, and two toggles of the
\* same org restore every membership).
C29_Step ==
    ws'.last.op = "toggle" =>
      LET org == ws'.last.org
          before == hiddenOrgs(ws)
          after == hiddenOrgs(ws')
      IN /\ NoDuplicates(before) => NoDuplicates(after)
         /\ \A o \in ToggledOrgs \cup Range(before) \cup Range(after) :
               (o \in Range(after)) <=>
                 (IF o = org THEN o \notin Range(before)
                  ELSE o \in Range(before))
C29_ToggleFlipsMembership == [][C29_Step]_vars

\* C30: initializeDefaults hides the user's own account on the first visit
\* to an org workspace and only then: when the host is an org workspace, a
\* username cookie exists and no hidden_orgs cookie exists for the
\* workspace, the hidden list becomes [username]; in every other case
\* (a preference exists, also an emptied list; the personal workspace; no
\* username) no cookie changes.
FirstVisit(page) ==
    /\ currentWorkspace(page.host) # <<>>
    /\ getCookie(page.host, page.username) \notin {NullCookie, <<>>}
    /\ getCookie(page.host,
                 MapGet(page.hidden, currentWorkspace(page.host), AbsentCookie))
         = NullCookie
C30_Step ==
    ws'.last.op = "init" =>
      IF FirstVisit(ws)
      THEN /\ hiddenOrgs(ws') = <<getCookie(ws.host, ws.username)>>
           /\ ws'.username = ws.username
           /\ \A w \in DOMAIN ws.hidden :
                 w # currentWorkspace(ws.host) => ws'.hidden[w] = ws.hidden[w]
      ELSE ws'.hidden = ws.hidden /\ ws'.username = ws.username
C30_DefaultsOnFirstVisitOnly == [][C30_Step]_vars

\* C31: setHiddenOrgs, toggleOrgVisibility and initializeDefaults run in one
\* workspace leave the hidden list of every other workspace as it was: on
\* every page of a workspace other than the current one, hiddenOrgs() gives
\* the same list before and after the call.
OtherWorkspace(host, page) == currentWorkspace(host) # currentWorkspace(page.host)
C31_Step ==
    ws'.last.op \in {"toggle", "init"} =>
        \A host \in WorkspaceHosts :
            OtherWorkspace(host, ws) =>
                hiddenOrgs([ws' EXCEPT !.host = host])
                    = hiddenOrgs([ws EXCEPT !.host = host])
C31_OtherWorkspacesUntouched == [][C31_Step]_vars

\* C32: every lock is held only for its own critical section: the rate
\* limiter's mutex is free while a request is inside the wrapped exchange
\* handler (waiting for or holding authCodesMutex, before its padded
\* response), and authCodesMutex is held only by a request between its
\* lookup and its unlock.
InHandler(e) == e.pc \in {"lock", "locked"}
C32_LocksOnlyForCriticalSection ==
    /\ \A r \in Reqs : InHandler(ex[r]) => mu # r
    /\ authCodesMutex # 0 => ex[authCodesMutex].pc = "locked"

\* ------------------------------------------------- the callback, step by step
\* handleOAuthCallback from its first line: the head of the handler (the
\* configuration, the error and installation pages, the state and the code
\* parameter) answers at once or goes on to exchangeCodeForToken, which is
\* followed attempt by attempt as above.
StepCallbacks ==
    { [GoodCallback("10.0.0.1", TokenA, Alice, EmptyURL)
         EXCEPT !.errParam = e, !.install = i, !.state = s, !.cookie = c] :
        e \in BOOLEAN, i \in BOOLEAN, s \in {"", "A", "B"},
        c \in {"none", "A"} }
    \cup
    { [GoodCallback("10.0.0.1", TokenA, Alice, EmptyURL)
         EXCEPT !.codeLen = n] : n \in {0, maxCodeLen + 1} }
    \cup
    { GoodCallback("10.0.0.1", t, u, EmptyURL) :
        t \in {TokenA, TokenShort, TokenAlien}, u \in {Alice, BadLogin} }
    \cup
    { [GoodCallback("10.0.0.1", TokenA, Alice, EmptyURL)
         EXCEPT !.tokTransient = k, !.tokFinal = f] :
        k \in {1, retryAttempts}, f \in {"ok", "4xx"} }
    \cup
    { [GoodCallback("10.0.0.1", TokenA, Alice, EmptyURL)
         EXCEPT !.userTransient = k, !.userFinal = f] :
        k \in {0, 1, retryAttempts}, f \in {"ok", "4xx"} }

\* The head of the handler answers: no provider call is made.
CbHead(q) ==
    LET out == callbackOutcome(q) IN
    /\ cb.pc \in {"idle", "done"}
    /\ ~reachesProvider(q)
    /\ cb' = [pc |-> "done", q |-> q, ctxDone |-> FALSE, n |-> 0,
              tokenCalls |-> 0, userCalls |-> 0, last |-> ""]
    /\ lastResp' =
         [out EXCEPT !.logged =
            out.tracked /\ excessiveFailures(failedAttempts, clientIP(q))]
    /\ IF out.tracked
       THEN /\ Len(After(MapGet(failedAttempts, clientIP(q), <<>>),
                          now - failedLoginWindow)) < MaxFailed
            /\ failedAttempts' = trackFailedAttempt(failedAttempts, clientIP(q))
       ELSE UNCHANGED failedAttempts
    /\ UNCHANGED <<authCodes, nextID, issuedAt>>
    /\ cbFrame

StepHead == \E q \in StepCallbacks : CbHead(q)
StepStart == \E q \in StepCallbacks : CbStart(q)
StepClock == Tick(CallbackInstants)

NextSteps ==
    \/ StepHead
    \/ StepStart
    \/ TokenAttempt
    \/ TokenAbort
    \/ UserAttempt
    \/ UserAbort
    \/ CbIssue
    \/ CbCancel
    \/ StepClock

SpecSteps == InitRetry /\ [][NextSteps]_vars

\* The operation of callback c has returned without error: its last
\* attempt was answered with success (and, for the token, in the format of
\* a provider token).
tokenDone(c) ==
    /\ c.tokenCalls >= 1
    /\ attemptOutcome(c.q.tokTransient, c.q.tokFinal, c.tokenCalls) = "ok"
    /\ tokenFormatOK(c.q.token)
userDone(c) ==
    /\ c.userCalls >= 1
    /\ attemptOutcome(c.q.userTransient, c.q.userFinal, c.userCalls) = "ok"
Inserts == DOMAIN authCodes' # DOMAIN authCodes \/ nextID' # nextID

\* C33: within one callback the steps come in the order state validated,
\* token exchanged, user fetched, code issued: a request goes to the token
\* endpoint only for a callback whose state is valid and that has not yet
\* called the user endpoint, one goes to the user endpoint only after the
\* token exchange has succeeded, an entry is stored only by a callback whose
\* state is valid, whose token exchange and user fetch have succeeded and
\* whose login is a valid handle, and a callback that ends without a
\* redirect has stored nothing and makes no further step.
C33_Step ==
    /\ cb'.tokenCalls > cb.tokenCalls
       => /\ passesState(cb.q)
          /\ cb.userCalls = 0
          /\ cb.pc = "token"
    /\ cb'.userCalls > cb.userCalls
       => /\ passesState(cb.q)
          /\ tokenDone(cb)
          /\ cb'.tokenCalls = cb.tokenCalls
          /\ cb.pc = "user"
    /\ Inserts
       => /\ cb.pc = "issue"
          /\ passesState(cb.q)
          /\ tokenDone(cb)
          /\ userDone(cb)
          /\ isValidGitHubHandle(cb.q.login)
          /\ cb' = [cb EXCEPT !.pc = "done"]
          /\ lastResp'.status = 302
          /\ DOMAIN authCodes' = DOMAIN authCodes \cup {lastResp'.issued}
    /\ (cb'.pc = "done" /\ cb' # cb /\ lastResp'.status # 302)
       => /\ ~Inserts
          /\ authCodes' = authCodes
          /\ ~(tokenDone(cb') /\ userDone(cb')
               /\ isValidGitHubHandle(cb'.q.login))
    /\ (cb.pc = "done" /\ cb' # cb)
       => /\ cb'.tokenCalls = 0
          /\ cb'.userCalls = 0
          /\ ~Inserts
C33_StepsInOrder == [][C33_Step]_vars

C33_Witness ==
    /\ cb.pc = "done"
    /\ lastResp.status = 302
    /\ lastResp.issued \in DOMAIN authCodes
    /\ cb.tokenCalls = 1
    /\ cb.userCalls = 2
    /\ ~cb.ctxDone

\* ------------------------------------------------------------ the code store
\* The store under callbacks of two users with every kind of return-to
\* cookie, tokens and logins that the handler rejects, exchange requests
\* for the codes, the cleanup goroutine and time.
MaxIssued == 2
StoreReturnTo ==
    { EmptyURL, URL("http", OrgHost), URL("https", EvilHost),
      URL("ftp", OrgHost) }
StoreCallbacks ==
    { [GoodCallback("10.0.0.1", TokenA, Alice, rt) EXCEPT !.secure = sec] :
        rt \in StoreReturnTo, sec \in BOOLEAN }
    \cup
    { GoodCallback("10.0.0.1", TokenB, Bob, EmptyURL) }
    \cup
    { GoodCallback("10.0.0.1", t, Alice, EmptyURL) :
        t \in {TokenShort, TokenAlien} }
    \cup
    { GoodCallback("10.0.0.1", TokenA, BadLogin, EmptyURL) }
StoreExchanges ==
    { ExReq("10.0.0.1", "POST", "code", c, SameOriginHeaders.site,
            SameOriginHeaders.origin, MyHost) : c \in 1..MaxIssued }

InitStore ==
    /\ now = 0
    /\ clientID = TRUE
    /\ clientSecret = TRUE
    /\ authCodes = EmptyMap
    /\ authCodesMutex = 0
    /\ requests = EmptyMap
    /\ mu = 0
    /\ failedAttempts = EmptyMap
    /\ nextID = 0
    /\ lastSweep = 0
    /\ ex = [r \in Reqs |-> IdleReq]
    /\ lastResp = NoResp
    /\ tokensOut = [c \in 1..(MaxIssued + 1) |-> 0]
    /\ issuedAt = [c \in 1..(MaxIssued + 1) |-> -1]
    /\ allowedLog = [ip \in IPs |-> <<>>]
    /\ vURL = EmptyURL
    /\ vResult = EmptyURL
    /\ vHandle = <<>>
    /\ vHandleOK = "pending"
    /\ jar = EmptyJar
    /\ cb = IdleCb
    /\ AuxInit

StoreCallback ==
    \E q \in StoreCallbacks :
        /\ callbackOutcome(q).tracked => failedAttempts = EmptyMap
        /\ handleOAuthCallbackUpTo(q, MaxIssued)
        /\ UNCHANGED <<jar, watch>>
StoreArrive ==
    \E q \in StoreExchanges :
        /\ \A r \in Reqs : ex[r].pc = "idle"
        /\ Len(allowedLog["10.0.0.1"]) < MaxIssued
        /\ ExArrive(1, q)
StoreInstants == {0, sweepInterval}
StoreClock == Tick(StoreInstants)

NextStore ==
    \/ StoreCallback
    \/ StoreArrive
    \/ Limit
    \/ Lock
    \/ Consume
    \/ Sweep
    \/ StoreClock

SpecStore == InitStore /\ [][NextStore]_vars

\* C34: every entry of the code store has used = false, a username that is
\* a valid GitHub handle, a token of 40 to 255 characters that starts with
\* ghp_, gho_, ghs_ or ghu_, and a returnTo that validateReturnToURL accepts
\* or that is the default <scheme>://my.<base domain>.
DefaultReturnTo == {URL(scheme, MyHost) : scheme \in {"http", "https"}}
C34_EntriesWellFormed ==
    \A c \in DOMAIN authCodes :
        /\ authCodes[c].used = FALSE
        /\ isValidGitHubHandle(authCodes[c].username)
        /\ authCodes[c].token.len >= 40
        /\ authCodes[c].token.len <= 255
        /\ authCodes[c].token.prefix \in {"ghp_", "gho_", "ghs_", "ghu_"}
        /\ \/ /\ authCodes[c].returnTo # EmptyURL
              /\ validateReturnToURL(authCodes[c].returnTo) = authCodes[c].returnTo
           \/ authCodes[c].returnTo \in DefaultReturnTo

C34_Witness ==
    /\ Cardinality(DOMAIN authCodes) = 2
    /\ \E c \in DOMAIN authCodes : authCodes[c].returnTo = URL("http", OrgHost)
    /\ \E c \in DOMAIN authCodes : authCodes[c].returnTo = URL("http", MyHost)
    /\ lastResp.status = 302
    /\ lastResp.returnCookie = URL("https", EvilHost)

\* -------------------------------------------------- the return destination
\* One browser whose logins and callbacks all fall within the lifetime of
\* its cookies; the observer keeps the response of the browser's latest
\* login.
ReturnLogin ==
    \E q \in FlowLogins :
        /\ handleOAuthLoginRoute(q)
        /\ watch' = [watch EXCEPT !.seen = TRUE, !.resp = lastResp']
ReturnCallback == \E q \in FlowCallbacks : BrowserCallback(q)

NextReturn ==
    \/ ReturnLogin
    \/ ReturnCallback

SpecReturn == InitFlow /\ [][NextReturn]_vars

\* The destination that a login response asks for: the return_to it stored,
\* if the validation accepts it.
requested(login) == validateReturnToURL(parseURL(login.setReturnCookie))

\* C35: a successful callback redirects to the return destination of the
\* login that minted the state it validated, to the default destination
\* when that login carried no return_to, and it uses the destination up: the
\* browser holds no return-to cookie after it.
C35_ReturnOfMintingLogin ==
    (/\ IsCallback(lastResp)
     /\ lastResp.status = 302
     /\ watch.seen
     /\ watch.resp.mintedState = lastResp.state)
    => /\ lastResp.location =
            IF requested(watch.resp) = EmptyURL THEN URL("https", MyHost)
            ELSE requested(watch.resp)
       /\ jar.returnTo = <<>>

\* ------------------------------------------------- a login on a subdomain
\* A browser starts the login on a page of a workspace: the handler sends
\* it to the base domain with return_to, the browser follows, and the
\* provider sends it to the callback.  The observer keeps the response to
\* the first request and the state minted for the browser's second one.
HostFlowHosts == {OrgHost, MyHost, OrgHostLower, EvilHost}
HostLogin ==
    \E h \in HostFlowHosts, sec \in BOOLEAN :
        /\ handleOAuthLoginRoute([ip |-> "10.0.0.1", host |-> h,
                                  secure |-> sec, returnTo |-> <<>>])
        /\ watch' = [watch EXCEPT !.seen = TRUE, !.resp = lastResp',
                                  !.after = <<>>]
\* The browser follows the Location of the redirect to the base domain.
HostFollow ==
    /\ IsLogin(lastResp)
    /\ lastResp.status = 302
    /\ lastResp.locPath = "/oauth/login"
    /\ handleOAuthLoginRoute([ip |-> lastResp.ip, host |-> lastResp.locHost,
                              secure |-> lastResp.locScheme = "https",
                              returnTo |-> lastResp.locQuery])
    /\ watch' = [watch EXCEPT !.after = <<lastResp'.mintedState>>]
\* Callbacks that succeed or fail at the user fetch, and callbacks with a
\* state the browser may not hold, refused while the tracker is empty.
HostCallbacks ==
    { [GoodCallback("10.0.0.1", TokenA, Alice, EmptyURL)
         EXCEPT !.state = st, !.userFinal = f] :
        st \in StateTokens, f \in {"ok", "4xx"} }
HostCallback ==
    \E q \in HostCallbacks :
        /\ q.state # jar.state => failedAttempts = EmptyMap
        /\ BrowserCallback(q)

NextHostFlow ==
    \/ HostLogin
    \/ HostFollow
    \/ HostCallback

SpecHostFlow == InitFlow /\ [][NextHostFlow]_vars

\* H is a subdomain of the base domain, in any letter case, whose first
\* label is reserved or a valid handle.
workspaceHost(h) ==
    /\ Len(h) > Len(baseDomain) + 1
    /\ EqualFold(SubSeq(h, Len(h) - Len(baseDomain), Len(h)),
                 <<".">> \o baseDomain)
    /\ isReserved(SplitFirst(h)) \/ isValidGitHubHandle(SplitFirst(h))

\* C36: a login started on a workspace host H ends, after a successful
\* flow, with the redirect to <scheme>://H/ and not to the default
\* destination.
C36_BackToStartingHost ==
    (/\ IsCallback(lastResp)
     /\ lastResp.status = 302
     /\ watch.seen
     /\ watch.after = <<lastResp.state>>
     /\ workspaceHost(watch.resp.host))
    => lastResp.location = URL(watch.resp.scheme, watch.resp.host)

\* C37: an exchange request that is not answered with the token leaves the
\* code store as it was, entries and contents (an expired entry stays for
\* the sweep), and does not hold authCodesMutex afterwards: the mutex is
\* free after the checks under the lock, and untouched by a request that
\* is answered before them.
FailedExchange(resp) == IsExchange(resp) /\ resp.status # 200
C37_Step ==
    FailedExchange(lastResp')
    => /\ authCodes' = authCodes
       /\ IF lastResp'.stage = "consume" THEN authCodesMutex' = 0
          ELSE authCodesMutex' = authCodesMutex
       /\ \A r \in Reqs : ex'[r].pc = "idle" => authCodesMutex' # r
C37_FailedExchangeLeavesStore == [][C37_Step]_vars

C37_Witness ==
    /\ FailedExchange(lastResp)
    /\ lastResp.status = 401
    /\ lastResp.msg = "Auth code expired"
    /\ lastResp.code \in DOMAIN authCodes
    /\ now > authCodes[lastResp.code].expiry
    /\ authCodesMutex = 0

\* C38: the limiter holds at most 10 timestamps per ip, in non-decreasing
\* order; a rejected request leaves the limiter's map as it was, so the
\* instant at which its ip is allowed again is not moved by it.
NonDecreasing(s) == \A i \in 1..(Len(s) - 1) : s[i] <= s[i + 1]
WindowWellFormed(m) ==
    \A ip \in DOMAIN m :
        /\ Len(m[ip]) <= rateLimitRequests
        /\ NonDecreasing(m[ip])
\* The first instant from which a request of ip is allowed: at once when
\* fewer than 10 timestamps are inside the window, else when the oldest of
\* the last 10 leaves it.
AllowedFrom(m, ip) ==
    LET valid == After(MapGet(m, ip, <<>>), now - rateLimitWindow)
    IN  IF Len(valid) < rateLimitRequests THEN now
        ELSE valid[Len(valid) - rateLimitRequests + 1] + rateLimitWindow
Rejected(resp) == IsExchange(resp) /\ resp.status = 429
C38_Step ==
    /\ WindowWellFormed(requests)
    /\ WindowWellFormed(requests')
    /\ Rejected(lastResp')
       => /\ requests' = requests
          /\ AllowedFrom(requests', lastResp'.ip)
               = AllowedFrom(requests, lastResp'.ip)
C38_RejectedLeavesWindow == [][C38_Step]_vars

C38_Witness ==
    /\ Rejected(lastResp)
    /\ now = rateLimitWindow
    /\ Len(requests[lastResp.ip]) = rateLimitRequests
    /\ requests[lastResp.ip][1] = rateLimitWindow \div 2
    /\ requests[lastResp.ip][rateLimitRequests] = rateLimitWindow

\* ------------------------------------------------- the budget of one address
\* The rate limiter under the requests of one address that uses up its
\* budget and of many addresses that send one request each; a few of them
\* come before the last instant, so that the scan finds entries to drop.
MaxEarly == 2
LastInstant == rateLimitWindow + rateLimitWindow \div 2
BudgetInstants == {0, 40, LastInstant}
Others(m) == DOMAIN m \ {1}
BudgetSenders ==
    {1} \cup
    (IF /\ ~(ManyIPs \subseteq DOMAIN requests \cup {1})
        /\ now < LastInstant => Cardinality(Others(requests)) < MaxEarly
     THEN {CHOOSE ip \in ManyIPs \ (DOMAIN requests \cup {1}) :
               \A o \in ManyIPs \ (DOMAIN requests \cup {1}) : ip <= o}
     ELSE {})

\* limitHandler for a request of ip, up to next(w, r) or the 429.
BudgetAccess ==
    /\ \E ip \in BudgetSenders :
          /\ requests' = limitRequestsAfter(ip)
          /\ lastResp' = [NoResp EXCEPT
                            !.endpoint = "exchange", !.stage = "limiter",
                            !.issued = ip,
                            !.status = IF limitAllows(ip) THEN 0 ELSE 429]
    /\ UNCHANGED failedAttempts
    /\ cleanupFrame
BudgetClock == Tick(BudgetInstants)

NextBudget ==
    \/ BudgetAccess
    \/ BudgetClock

SpecBudget == InitLimiter /\ [][NextBudget]_vars

\* The timestamps of ip inside the window: what the limiter counts.
InsideWindow(m, ip) == After(MapGet(m, ip, <<>>), now - rateLimitWindow)

\* C39: the limiter decides for each ip by that ip's own timestamps: a
\* request of one ip leaves the timestamps inside the window of every other
\* ip as they were, the scan drops no entry that has a timestamp inside the
\* window, and the request is rejected exactly when 10 timestamps of its
\* own ip are inside the window.
C39_Step ==
    lastResp'.stage = "limiter"
    => /\ \A ip \in ManyIPs \ {lastResp'.issued} :
             InsideWindow(requests', ip) = InsideWindow(requests, ip)
       /\ \A ip \in DOMAIN requests \ DOMAIN requests' :
             /\ InsideWindow(requests, ip) = <<>>
             /\ requests[ip][Len(requests[ip])] < now - rateLimitWindow
       /\ lastResp'.status = 429
             <=> Len(InsideWindow(requests, lastResp'.issued)) >= rateLimitRequests
C39_PerIPBudget == [][C39_Step]_vars

\* A request of another address has just run the scan, which dropped the
\* stale entries, while address 1 has used up its budget and keeps older
\* timestamps in its entry.
C39_Witness ==
    /\ lastResp.stage = "limiter"
    /\ lastResp.issued # 1
    /\ now = LastInstant
    /\ Cardinality(DOMAIN requests) = cleanupModulus - MaxEarly
    /\ 1 \in DOMAIN requests
    /\ Len(requests[1]) = rateLimitRequests
    /\ requests[1][1] = 0
    /\ requests[1][rateLimitRequests] = 40

\* C40: issuing a code never replaces an entry of the store: a callback
\* that completes with the redirect stores its entry under a code that is
\* not in the store and was never issued before, the store grows by that
\* one entry, and every entry it held stays as it was, token and user.
Issues(resp) == IsCallback(resp) /\ resp.status = 302
C40_Step ==
    Issues(lastResp')
    => /\ lastResp'.issued \notin DOMAIN authCodes
       /\ issuedAt[lastResp'.issued] = -1
       /\ DOMAIN authCodes' = DOMAIN authCodes \cup {lastResp'.issued}
       /\ \A c \in DOMAIN authCodes : authCodes'[c] = authCodes[c]
       /\ authCodes'[lastResp'.issued].token = lastResp'.provToken
       /\ authCodes'[lastResp'.issued].username = lastResp'.provLogin
====
